---- MODULE Spec2Model ----
(***************************************************************************)
(* Interaction engine of the short-video feed service.                     *)
(*                                                                         *)
(* Part I   - the cache-aside read path with a lease (FeedService          *)
(*            ListLatest / ListByFollowing over the redis client).         *)
(* Part II  - the write path: LikeService, CommentService, SocialService,  *)
(*            the event bus and the Like / Comment / Social / Popularity   *)
(*            workers over the relational store and the hot-window cache.  *)
(* Part III - cursor pagination of the ranked feeds (ListLikesCount,       *)
(*            ListByPopularity).                                           *)
(* Part IV  - the popularity snapshot of ListByPopularity.                 *)
(* Part V   - the auth gate and the session operations of AccountService.  *)
(* Part VI  - what the feed responses cache: keys and per-viewer like      *)
(*            state.                                                       *)
(* Part VII - the hot ranking: minute buckets, the snapshot of a window,   *)
(*            its pages and the pages of the database fallback.            *)
(* Part VIII - the worker process: the channel its consumers are given.    *)
(* Part IX  - the video detail cache: GetDetail, the invalidation by the   *)
(*            counter updates and by Delete.                               *)
(***************************************************************************)
EXTENDS Integers, Sequences, FiniteSets, TLC

\* ------------------------------------------------------------ bounds ----
NumCallers == 2        \* concurrent feed requests
NumAccounts == 2       \* accounts that comment and follow
NumLikers == 1         \* accounts that send like and unlike requests
MaxQueue == 1          \* messages a queue of the bus holds
MaxCount == 1          \* largest magnitude a counter reaches
MaxComments == 2       \* comment rows ever created
MaxDeliver == 3        \* deliveries of one message in a replay
NumRows == 3           \* rows of the videos table that is paged through
MaxScore == 1          \* largest likes_count / popularity of a paged row
MaxTime == 2           \* largest create_time of a paged row
NumMembers == 2        \* videos with entries in the minute buckets
MaxHot == 2            \* largest bucket score of a video
NumGates == 1          \* requests in the auth gate at a time
MaxTokens == 2         \* tokens issued to the account
MaxLimit == 3          \* largest limit of a paging client
MaxWrites == 2         \* increments written to the minute buckets
MaxPages == 2          \* pages a client of the hot ranking asks for
Ticks == 2             \* readings of a create_time within one second
MaxChanges == 2        \* counter changes of the video whose detail is cached

\* ------------------------------------------------- program constants ----
MaxPolls == 5          \* for i := 0; i < 5; i++
LimitCap == 50         \* a limit above 50 is replaced by the default
DefaultLimit == 10     \* the default limit
CtxPolls == 3          \* 3 sleeps of 20ms exceed the 50ms cacheCtx deadline
win == 60              \* const win = 60: minute buckets of a snapshot

\* ======================================================================
\* Part I  - cache-aside with lease
\* ======================================================================
VARIABLES
    fpc,          \* position of each feed request in ListLatest/ListByFollowing
    fkey,         \* cacheKey of the request ("" when the request is not cached)
    ftoken,       \* lease token Lock returned to the request (NoLock: not locked)
    polls,        \* loop counter i of the contender's poll loop
    ctxDone,      \* cacheCtx (50ms) of the request has expired
    fres,         \* what the request returns: "cached", "fresh", "err"
    cache,        \* redis: TRUE iff the cache key holds a serialized response
    lock,         \* redis: value stored under lock:cacheKey (NoLock = absent)
    qpath,        \* history: branch on which the request runs the source query
    winAcq,       \* history: requests that acquired the lease of the open lease
                  \* window (0 while no lease is stored)
    winQ,         \* history: source queries started in the open lease window
                  \* (0 while no lease is stored)
    staleUnlock,  \* history: an Unlock ran with a token that was not stored
    fcmd          \* history: the cache command of the last step of a request

varsFeed == <<fpc, fkey, ftoken, polls, ctxDone, fres, cache, lock,
              qpath, winAcq, winQ, staleUnlock, fcmd>>

\* ----------------------------------------------------------------------
\* state of Part II
\* ----------------------------------------------------------------------
VARIABLES
    likes,          \* rows of the likes table: <<video_id, account_id>>
    likesCount,     \* videos.likes_count, per video
    popularity,     \* videos.popularity, per video
    comments,       \* rows of the comments table: [id, video, author]
    nextCommentID,  \* auto-increment of the comments table
    follows,        \* rows of the social table per <<follower_id, vlogger_id>>
    hot,            \* redis: score of the video in the current minute bucket
    likeQ,          \* queue like.events
    popularityQ,    \* queue video.popularity.events
    commentQ,       \* queue comment.events
    socialQ,        \* queue social.events
    call,           \* the Like / Unlike call between its checks and its writes
    ev,             \* history: what the step just taken did
    deliveries,     \* history: deliveries of the replayed message so far
    first,          \* history: the tables after its first delivery
    deleteCall,     \* history: caller and comment_id of the last Delete call
    unfollowed      \* history: edges whose last successful call was Unfollow

varsDB == <<likes, likesCount, popularity, comments, nextCommentID, follows>>
varsBus == <<likeQ, popularityQ, commentQ, socialQ>>
varsReplay == <<deliveries, first, deleteCall, unfollowed>>
varsWrite == <<varsDB, hot, varsBus, call, ev, varsReplay>>

\* ----------------------------------------------------------------------
\* state of Part III
\* ----------------------------------------------------------------------
VARIABLES
    ptable,     \* rows of the videos table the pages are read from
    plimit,     \* limit of the client's requests
    preq,       \* cursor fields of the client's next request
    pseen,      \* ids of the rows returned so far, in the order returned
    pstate      \* "paging", "done" (empty page or has_more false), "rejected"

varsPage == <<ptable, plimit, preq, pseen, pstate>>

\* ----------------------------------------------------------------------
\* state of Part IV
\* ----------------------------------------------------------------------
VARIABLES
    bucket,      \* redis: summed score of each video over the 60 minute
                 \* buckets hot:video:1m:* of the asOf window (0: no entry)
    snapExists,  \* redis: the key hot:video:merge:1m:{asOf} exists
    snapScore,   \* redis: score of each video in it (0: no entry)
    snapTTL,     \* redis: the key carries a time to live
    spc,         \* position of each ListByPopularity call
    sexists,     \* the call's local variable exists
    sres,        \* member list the call returned
    life,        \* history: member list first returned from the snapshot
                 \* since the key came into existence
    differs      \* history: a call returned another list from it

varsSnap == <<bucket, snapExists, snapScore, snapTTL, spc, sexists, sres,
              life, differs>>

\* ----------------------------------------------------------------------
\* state of Part V  (one account)
\* ----------------------------------------------------------------------
VARIABLES
    dbToken,     \* accounts.token of the row (NoToken: "")
    cacheToken,  \* redis: value of account:{id} (NoToken: no entry)
    issued,      \* tokens generated so far; they are 1..issued
    apc,         \* position of the session operation in progress
    atok,        \* the token it generated
    gpc,         \* position of each request in the auth gate
    ghdr,        \* history: the Authorization header the request carried
    gtok,        \* token the request presents
    gres,        \* "admit" or "reject"
    gpath,       \* history: outcome of the gate's cache GET
    gdb,         \* history: outcome of the gate's FindByID and whether the
                 \* row's token was the presented one
    gset,        \* history: outcome of the gate's cache SET
    gclean,      \* history: no session operation ran during the request
    gactive,     \* history: value of active when the request started
                 \* (NoToken once a session operation ran during it)
    active,      \* history: token returned by the last Login / Rename that
                 \* returned, NoToken after a Logout that returned nil
    lastOut      \* history: token that was active before that Logout

\* ----------------------------------------------------------------------
\* state of Part VI
\* ----------------------------------------------------------------------
VARIABLES
    vlikes,      \* accounts with a Like row for the video of the feed page
    rcache,      \* redis: serialized response under each feed cache key
    rlast        \* the response the last feed request returned

varsScope == <<vlikes, rcache, rlast>>

\* ----------------------------------------------------------------------
\* state of Part VII
\* ----------------------------------------------------------------------
VARIABLES
    hnow,        \* the clock: index of the current minute in Clock
    hbucket,     \* redis: the sorted set hot:video:1m:<minute> of each minute
    hwrites,     \* increments written so far
    htable,      \* rows of the videos table
    hsnap,       \* redis: the sorted set hot:video:merge:1m:<minute>
    hlimit,      \* limit of the client's requests
    hreq,        \* fields of the client's next request
    hpages,      \* history: the pages the client received
    hstate       \* "paging", "done", "rejected"

varsHot == <<hnow, hbucket, hwrites, htable, hsnap, hlimit, hreq, hpages,
             hstate>>

\* ----------------------------------------------------------------------
\* state of Part VIII
\* ----------------------------------------------------------------------
VARIABLES
    ch,          \* main: the channel conn.Channel() returned (0: none yet)
    consumers    \* the channel each started worker consumes on (0: not started)

varsWire == <<ch, consumers>>

\* ----------------------------------------------------------------------
\* state of Part IX
\* ----------------------------------------------------------------------
VARIABLES
    vrow,        \* the videos row: <<version>>, or <<>> once deleted
    vcache,      \* redis: video:detail:id=<id>: <<version>>, or <<>> (absent)
    dpc,         \* GetDetail of each caller: "idle", "miss", "read"
    dval,        \* the row the GetByID of a caller returned
    dpend        \* steps of the change in progress that are still to be made

varsDetail == <<vrow, vcache, dpc, dval, dpend>>

varsAcct == <<dbToken, cacheToken, issued, apc, atok, active, lastOut>>
varsGate == <<gpc, ghdr, gtok, gres, gpath, gdb, gset, gclean, gactive>>
varsAuth == <<varsAcct, varsGate>>
varsMore == <<varsWire, varsDetail>>
varsRest == <<varsPage, varsSnap, varsAuth, varsScope, varsHot, varsMore>>
varsNotPage == <<varsFeed, varsWrite, varsSnap, varsAuth, varsScope, varsHot,
                 varsMore>>
varsNotSnap == <<varsFeed, varsWrite, varsPage, varsAuth, varsScope, varsHot,
                 varsMore>>
varsNotAuth == <<varsFeed, varsWrite, varsPage, varsSnap, varsScope, varsHot,
                 varsMore>>
varsNotScope == <<varsFeed, varsWrite, varsPage, varsSnap, varsAuth, varsHot,
                  varsMore>>
varsNotHot == <<varsFeed, varsWrite, varsPage, varsSnap, varsAuth, varsScope,
                varsMore>>
varsNotWire == <<varsFeed, varsWrite, varsPage, varsSnap, varsAuth, varsScope,
                 varsHot, varsDetail>>
varsNotDetail == <<varsFeed, varsWrite, varsPage, varsSnap, varsAuth, varsScope,
                   varsHot, varsWire>>

Callers == 1..NumCallers
NoLock == 0

\* cacheKey of a ListLatest request: only anonymous requests
\* (viewerAccountID == 0) are cached; the model follows one key (one limit, one
\* cursor). ListByFollowing runs the same protocol under its own key.
CacheKey(viewer) ==
    IF viewer = 0 THEN "feed:listLatest" ELSE ""

\* randToken(16): a nonce that no other acquisition of the key uses; a request
\* calls Lock once, so the number of the request serves.
randToken(c) == c

\* SETNX: the value is stored only when the key is absent.
SetNXAlways(cur) == TRUE
SetNX(cur) == cur = NoLock

\* unlockScript: if GET == ARGV[1] then DEL else 0.
unlockScriptNoCompare(cur, token) == NoLock
unlockScript(cur, token) == IF cur = token THEN NoLock ELSE cur

\* a cache command under a context: with the context done the client returns
\* the context's error and sends nothing; otherwise the command is sent and
\* fails only with the network
Outcome(expired, neterr) ==
    IF expired THEN "expired" ELSE IF neterr THEN "neterr" ELSE "ok"
NoCmd == [op |-> "none", out |-> "none", late |-> FALSE]
Cmd(op, expired, neterr, late) ==
    [op |-> op, out |-> Outcome(expired, neterr), late |-> late]

\* the context of the deferred Unlock is context.Background(): it is never
\* done, whatever became of the request's contexts
UnlockCtxOfRequest(done) == done
UnlockCtx(done) == FALSE

\* the contender's loop condition i < 5
PollAgainAlways(i) == TRUE
PollAgain(i) == i < MaxPolls

InitFeed ==
    /\ fpc = [c \in Callers |-> "idle"]
    /\ fkey = [c \in Callers |-> ""]
    /\ ftoken = [c \in Callers |-> NoLock]
    /\ polls = [c \in Callers |-> 0]
    /\ ctxDone = [c \in Callers |-> FALSE]
    /\ fres = [c \in Callers |-> ""]
    /\ cache = FALSE
    /\ lock = NoLock
    /\ qpath = [c \in Callers |-> ""]
    /\ winAcq = 0
    /\ winQ = 0
    /\ staleUnlock = FALSE
    /\ fcmd = NoCmd

\* the request returns res: its locals are gone
Return(c, res) ==
    /\ fpc' = [fpc EXCEPT ![c] = "done"]
    /\ fres' = [fres EXCEPT ![c] = res]
    /\ polls' = [polls EXCEPT ![c] = 0]
    /\ ctxDone' = [ctxDone EXCEPT ![c] = FALSE]
    /\ ftoken' = [ftoken EXCEPT ![c] = NoLock]
    /\ qpath' = [qpath EXCEPT ![c] = ""]

\* the request starts the source query (doListLatestFromDB) on branch p
BeginQuery(c, pc, p) ==
    /\ fpc' = [fpc EXCEPT ![c] = pc]
    /\ qpath' = [qpath EXCEPT ![c] = p]
    /\ winQ' = IF p # "uncached" /\ lock # NoLock THEN winQ + 1 ELSE winQ

\* A request arrives: the handler computes cacheKey; an uncached request goes
\* straight to the database query.
Start(c) ==
    /\ fpc[c] = "idle"
    /\ fcmd' = NoCmd
    /\ \E viewer \in {0, 1} :
         /\ fkey' = [fkey EXCEPT ![c] = CacheKey(viewer)]
         /\ IF CacheKey(viewer) = ""
              THEN BeginQuery(c, "dquery", "uncached")
              ELSE /\ fpc' = [fpc EXCEPT ![c] = "get1"]
                   /\ UNCHANGED <<qpath, winQ>>
    /\ UNCHANGED <<ftoken, polls, ctxDone, fres, cache, lock, winAcq,
                   staleUnlock>>
    /\ UNCHANGED <<varsWrite, varsRest>>

\* 1. GetBytes(cacheCtx, cacheKey): hit returns the cached response, a miss goes
\* on to the lease, any other error falls through to the database query.
Get1(c) ==
    /\ fpc[c] = "get1"
    /\ fcmd' = NoCmd
    /\ \E neterr \in BOOLEAN :
         IF neterr
           THEN /\ BeginQuery(c, "dquery", "geterr")
                /\ UNCHANGED <<fres, polls, ctxDone, ftoken>>
           ELSE IF cache
             THEN /\ Return(c, "cached")
                  /\ UNCHANGED winQ
             ELSE /\ fpc' = [fpc EXCEPT ![c] = "lock"]
                  /\ UNCHANGED <<fres, polls, ctxDone, ftoken, qpath, winQ>>
    /\ UNCHANGED <<fkey, cache, lock, winAcq, staleUnlock>>
    /\ UNCHANGED <<varsWrite, varsRest>>

\* 2. Lock(cacheCtx, lockKey, 500ms): SETNX of a fresh token. An error is
\* ignored by the caller and leaves locked = false; the command may or may not
\* have reached the server.
Lock(c) ==
    /\ fpc[c] = "lock"
    /\ fcmd' = NoCmd
    /\ \E neterr \in BOOLEAN, applied \in BOOLEAN :
         LET stored == SetNX(lock) /\ applied
         IN  /\ (~neterr => applied)
             /\ lock' = IF stored THEN randToken(c) ELSE lock
             /\ IF stored /\ ~neterr
                  THEN /\ fpc' = [fpc EXCEPT ![c] = "recheck"]
                       /\ ftoken' = [ftoken EXCEPT ![c] = randToken(c)]
                       /\ winAcq' = winAcq + 1
                  ELSE /\ fpc' = [fpc EXCEPT ![c] = "poll"]
                       /\ UNCHANGED <<ftoken, winAcq>>
    /\ UNCHANGED <<fkey, polls, ctxDone, fres, cache, qpath, winQ,
                   staleUnlock>>
    /\ UNCHANGED <<varsWrite, varsRest>>

\* 3. lease holder: re-check the cache; a hit returns (the deferred Unlock
\* runs), anything else runs the database query.
Recheck(c) ==
    /\ fpc[c] = "recheck"
    /\ fcmd' = NoCmd
    /\ \E neterr \in BOOLEAN :
         IF ~neterr /\ cache
           THEN /\ fpc' = [fpc EXCEPT ![c] = "unlock"]
                /\ fres' = [fres EXCEPT ![c] = "cached"]
                /\ UNCHANGED <<qpath, winQ>>
           ELSE /\ BeginQuery(c, "hquery", "holder")
                /\ UNCHANGED fres
    /\ UNCHANGED <<fkey, ftoken, polls, ctxDone, cache, lock, winAcq,
                   staleUnlock>>
    /\ UNCHANGED <<varsWrite, varsRest>>

\* doListLatestFromDB of the lease holder returns; it may have taken longer
\* than the 50ms of cacheCtx.
HolderQuery(c) ==
    /\ fpc[c] = "hquery"
    /\ fcmd' = NoCmd
    /\ \E dberr \in BOOLEAN, slow \in BOOLEAN :
         /\ ctxDone' = [ctxDone EXCEPT ![c] = slow]
         /\ IF dberr
              THEN /\ fpc' = [fpc EXCEPT ![c] = "unlock"]
                   /\ fres' = [fres EXCEPT ![c] = "err"]
              ELSE /\ fpc' = [fpc EXCEPT ![c] = "hset"]
                   /\ fres' = [fres EXCEPT ![c] = "fresh"]
    /\ UNCHANGED <<fkey, ftoken, polls, cache, lock, qpath, winAcq, winQ,
                   staleUnlock>>
    /\ UNCHANGED <<varsWrite, varsRest>>

\* SetBytes(cacheCtx, cacheKey, b, cacheTTL) of the lease holder; its error is
\* ignored.
HolderSet(c) ==
    /\ fpc[c] = "hset"
    /\ \E neterr \in BOOLEAN :
         LET err == neterr \/ ctxDone[c] IN
         /\ cache' = IF err THEN cache ELSE TRUE
         /\ fcmd' = Cmd("set", ctxDone[c], neterr, ctxDone[c])
    /\ fpc' = [fpc EXCEPT ![c] = "unlock"]
    /\ UNCHANGED <<fkey, ftoken, polls, ctxDone, fres, lock, qpath,
                   winAcq, winQ, staleUnlock>>
    /\ UNCHANGED <<varsWrite, varsRest>>

\* deferred Unlock(context.Background(), lockKey, token); its error is ignored.
Unlock(c) ==
    /\ fpc[c] = "unlock"
    /\ \E neterr \in BOOLEAN :
         LET expired == UnlockCtx(ctxDone[c])
             err == neterr \/ expired
         IN  /\ lock' = IF err THEN lock ELSE unlockScript(lock, ftoken[c])
             /\ winAcq' = IF lock' = NoLock THEN 0 ELSE winAcq
             /\ winQ' = IF lock' = NoLock THEN 0 ELSE winQ
             /\ staleUnlock' = (staleUnlock \/
                                 (~err /\ lock # NoLock /\ lock # ftoken[c]))
             /\ fcmd' = Cmd("unlock", expired, neterr, ctxDone[c])
    /\ Return(c, fres[c])
    /\ UNCHANGED <<fkey, cache>>
    /\ UNCHANGED <<varsWrite, varsRest>>

\* 4. contender: sleep 20ms, GetBytes(cacheCtx, cacheKey); a hit returns, after
\* the last poll the request falls through to the database query.
Poll(c) ==
    /\ fpc[c] = "poll"
    /\ IF PollAgain(polls[c])
         THEN \E neterr \in BOOLEAN :
                LET late == ctxDone[c] \/ polls[c] + 1 >= CtxPolls
                    err == neterr \/ late
                IN  /\ fcmd' = Cmd("get", late, neterr, late)
                    /\ IF ~err /\ cache
                         THEN /\ Return(c, "cached")
                              /\ UNCHANGED winQ
                         ELSE /\ polls' = [polls EXCEPT ![c] = @ + 1]
                              /\ ctxDone' = [ctxDone EXCEPT ![c] = late]
                              /\ UNCHANGED <<fpc, fres, ftoken, qpath, winQ>>
         ELSE /\ fcmd' = NoCmd
              /\ BeginQuery(c, "dquery", "contender")
              /\ UNCHANGED <<polls, ctxDone, fres, ftoken>>
    /\ UNCHANGED <<fkey, cache, lock, winAcq, staleUnlock>>
    /\ UNCHANGED <<varsWrite, varsRest>>

\* the database query of the fall-through path returns.
DirectQuery(c) ==
    /\ fpc[c] = "dquery"
    /\ fcmd' = NoCmd
    /\ \E dberr \in BOOLEAN :
         IF dberr
           THEN Return(c, "err")
           ELSE IF fkey[c] = ""
             THEN Return(c, "fresh")
             ELSE /\ fpc' = [fpc EXCEPT ![c] = "dset"]
                  /\ fres' = [fres EXCEPT ![c] = "fresh"]
                  /\ UNCHANGED <<polls, ctxDone, ftoken, qpath>>
    /\ UNCHANGED <<fkey, cache, lock, winAcq, winQ, staleUnlock>>
    /\ UNCHANGED <<varsWrite, varsRest>>

\* opportunistic SetBytes under a new 50ms context.
DirectSet(c) ==
    /\ fpc[c] = "dset"
    /\ fcmd' = NoCmd
    /\ \E neterr \in BOOLEAN :
         cache' = IF neterr THEN cache ELSE TRUE
    /\ Return(c, fres[c])
    /\ UNCHANGED <<fkey, lock, winAcq, winQ, staleUnlock>>
    /\ UNCHANGED <<varsWrite, varsRest>>

\* the process of a lease holder dies before its deferred Unlock ran.
Crash(c) ==
    /\ fpc[c] \in {"recheck", "hquery", "hset", "unlock"}
    /\ fcmd' = NoCmd
    /\ fpc' = [fpc EXCEPT ![c] = "crashed"]
    /\ UNCHANGED <<fkey, ftoken, polls, ctxDone, fres, cache, lock,
                   qpath, winAcq, winQ, staleUnlock>>
    /\ UNCHANGED <<varsWrite, varsRest>>

\* redis expires lock:cacheKey (TTL 500ms).
LeaseExpire ==
    /\ lock # NoLock
    /\ fcmd' = NoCmd
    /\ lock' = NoLock
    /\ winAcq' = 0
    /\ winQ' = 0
    /\ UNCHANGED <<fpc, fkey, ftoken, polls, ctxDone, fres, cache, qpath,
                   staleUnlock>>
    /\ UNCHANGED <<varsWrite, varsRest>>

\* redis expires the cached response (cacheTTL 5s).
CacheExpire ==
    /\ cache
    /\ fcmd' = NoCmd
    /\ cache' = FALSE
    /\ UNCHANGED <<fpc, fkey, ftoken, polls, ctxDone, fres, lock, qpath,
                   winAcq, winQ, staleUnlock>>
    /\ UNCHANGED <<varsWrite, varsRest>>


\* one step of request c that its goroutine takes by itself
CallerStep(c) ==
    \/ Get1(c) \/ Lock(c) \/ Recheck(c) \/ HolderQuery(c) \/ HolderSet(c)
    \/ Unlock(c) \/ Poll(c) \/ DirectQuery(c) \/ DirectSet(c)

NextFeed ==
    \/ \E c \in Callers : Start(c)
    \/ \E c \in Callers : CallerStep(c)
    \/ \E c \in Callers : Crash(c)
    \/ LeaseExpire
    \/ CacheExpire

\* ======================================================================
\* Part II  - write path: services, event bus, workers
\* ======================================================================
Accounts == 1..NumAccounts
Likers == 1..NumLikers
Videos == {1}              \* ids of the rows of the videos table
VideoIDs == {0} \cup Videos \* video_id of a request; 0 has no row
Idle == [op |-> "none", acct |-> 0, video |-> 0]

\* the relational tables as one value
DB == [likes |-> likes, likesCount |-> likesCount, popularity |-> popularity,
       comments |-> comments, nextCommentID |-> nextCommentID,
       follows |-> follows]

\* <<follower_id, vlogger_id>> of a row of the social table
Pairs == Accounts \X Accounts

EmptyDB == [likes |-> {}, likesCount |-> [v \in Videos |-> 0],
            popularity |-> [v \in Videos |-> 0], comments |-> {},
            nextCommentID |-> 1, follows |-> [p \in Pairs |-> 0]]

SetDB(d) ==
    /\ likes' = d.likes
    /\ likesCount' = d.likesCount
    /\ popularity' = d.popularity
    /\ comments' = d.comments
    /\ nextCommentID' = d.nextCommentID
    /\ follows' = d.follows

SetDBInit(d) ==
    /\ likes = d.likes
    /\ likesCount = d.likesCount
    /\ popularity = d.popularity
    /\ comments = d.comments
    /\ nextCommentID = d.nextCommentID
    /\ follows = d.follows

\* the counters of the step's result stay within the explored range
Capped ==
    /\ \A v \in Videos : /\ likesCount'[v] <= MaxCount
                         /\ popularity'[v] <= MaxCount
                         /\ popularity'[v] >= 0 - MaxCount
                         /\ hot'[v] <= MaxCount
                         /\ hot'[v] >= 0 - MaxCount
    /\ nextCommentID' <= MaxComments + 1

\* messages of the four topics
LikeEvent(action, userID, videoID) ==
    [action |-> action, user |-> userID, video |-> videoID]
PopularityEvent(videoID, change) == [video |-> videoID, change |-> change]
CommentEvent(action, videoID, authorID, commentID) ==
    [action |-> action, video |-> videoID, author |-> authorID, id |-> commentID]
SocialEvent(action, followerID, vloggerID) ==
    [action |-> action, follower |-> followerID, vlogger |-> vloggerID]

\* a body json.Unmarshal returns an error for
Malformed == [action |-> "malformed"]

\* PublishJSON: the message is in the queue iff the publish returned nil; a nil
\* MQ client counts as a failed publish.
PublishJSON(q, evt, ok) == IF ok THEN Append(q, evt) ELSE q

\* the queue has room for a publish that succeeds
Room(q, ok) == ok => Len(q) < MaxQueue

\* handleDelivery: Nack(false, true) requeues the message behind the ones the
\* consumer has already prefetched; Ack removes it; an Ack that does not reach
\* the broker leaves it to be redelivered.
SettleAlwaysAck(q, err, ack) == Tail(q)
Settle(q, err, ack) ==
    IF err THEN Append(Tail(q), Head(q))
    ELSE IF ack = "lost" THEN q
    ELSE Tail(q)

Acks == {"acked", "lost"}

\* history record of a step
NoEv == [kind |-> "none", op |-> "none", res |-> "none", statePub |-> "skip",
         stateDirect |-> "skip", popPub |-> "skip", popDirect |-> "skip",
         bumped |-> FALSE]

ApiEv(op, res, statePub, stateDirect, popPub, popDirect, bumped) ==
    [kind |-> "api", op |-> op, res |-> res, statePub |-> statePub,
     stateDirect |-> stateDirect, popPub |-> popPub, popDirect |-> popDirect,
     bumped |-> bumped]

WorkerEv(op, res, rowop, bumped) ==
    [kind |-> "worker", op |-> op, res |-> res, statePub |-> "skip",
     stateDirect |-> rowop, popPub |-> "skip", popDirect |-> "skip",
     bumped |-> bumped]

Rejected(op) == ApiEv(op, "err", "skip", "skip", "skip", "skip", FALSE)

CountersDiffer(d1, d2) ==
    d1.likesCount # d2.likesCount \/ d1.popularity # d2.popularity

Max(a, b) == IF a > b THEN a ELSE b

\* ------------------------------------------------ repositories (SQL) ----
\* VideoRepository.IsExist
IsExist(d, id) == id \in DOMAIN d.likesCount

\* LikeRepository.IsLiked
IsLiked(d, videoID, accountID) == <<videoID, accountID>> \in d.likes

\* LikeRepository.LikeIgnoreDuplicate: the value of created. The insert itself
\* is InsertLike; error 1062 of the unique index (video_id, account_id) gives
\* created = false.
LikeAlwaysCreated(d, videoID, accountID) == TRUE
LikeIgnoreDuplicate(d, videoID, accountID) ==
    videoID # 0 /\ accountID # 0 /\ <<videoID, accountID>> \notin d.likes

InsertLike(d, videoID, accountID) ==
    [d EXCEPT !.likes = @ \cup {<<videoID, accountID>>}]

\* LikeRepository.DeleteByVideoAndAccount: the value of deleted (RowsAffected > 0)
DeleteByVideoAndAccount(d, videoID, accountID) ==
    videoID # 0 /\ accountID # 0 /\ <<videoID, accountID>> \in d.likes

DeleteLike(d, videoID, accountID) ==
    [d EXCEPT !.likes = @ \ {<<videoID, accountID>>}]

\* VideoRepository.ChangeLikesCount: GREATEST(likes_count + change, 0)
ChangeLikesCount(d, id, change) ==
    [d EXCEPT !.likesCount[id] = Max(@ + change, 0)]

\* VideoRepository.ChangePopularity: GREATEST(popularity + change, 0)
ChangePopularity(d, id, change) ==
    [d EXCEPT !.popularity[id] = Max(@ + change, 0)]

\* VideoRepository.UpdatePopularity: popularity + change
UpdatePopularity(d, id, change) ==
    [d EXCEPT !.popularity[id] = @ + change]

\* CommentRepository.GetByID: the set of rows with that id (empty: nil)
GetByID(d, id) == {c \in d.comments : c.id = id}

\* CommentRepository.CreateComment
CreateComment(d, videoID, authorID) ==
    [d EXCEPT !.comments = @ \cup {[id |-> d.nextCommentID, video |-> videoID,
                                    author |-> authorID]},
              !.nextCommentID = @ + 1]

\* CommentRepository.DeleteComment
DeleteComment(d, id) == [d EXCEPT !.comments = {c \in @ : c.id # id}]

\* SocialRepository.IsFollowed / Follow / Unfollow
IsFollowed(d, followerID, vloggerID) ==
    d.follows[<<followerID, vloggerID>>] > 0

\* uniqueIndex:idx_social_follower_vlogger: Create fails with error 1062
DuplicateNever(rows, p) == FALSE
Duplicate(rows, p) == rows[p] > 0

\* SocialRepository.Follow: Create; a duplicate inserts nothing
RepoFollow(d, followerID, vloggerID) ==
    IF Duplicate(d.follows, <<followerID, vloggerID>>) THEN d
    ELSE [d EXCEPT !.follows[<<followerID, vloggerID>>] = @ + 1]

\* SocialRepository.Unfollow: Delete where follower_id and vlogger_id match
RepoUnfollow(d, followerID, vloggerID) ==
    [d EXCEPT !.follows[<<followerID, vloggerID>>] = 0]

\* UpdatePopularityCache: ZINCRBY on the minute bucket. Nothing is written for
\* id == 0 or change == 0, for a nil cache client, or when ZINCRBY fails: the
\* error is discarded. nowrite stands for the last two.
UpdatePopularityCache(h, id, change, nowrite) ==
    IF id = 0 \/ change = 0 \/ nowrite THEN h
    ELSE [h EXCEPT ![id] = @ + change]

\* -------------------------------------------- fallback transactions ----
\* LikeService.Like, transaction: video row, insert (duplicate key is an
\* error and rolls back), likes_count + 1, popularity + 1.
LikeTxNoRollback(d, videoID, accountID, txerr) ==
    IF txerr \/ ~IsExist(d, videoID) THEN [ok |-> FALSE, db |-> d]
    ELSE LET d1 == [InsertLike(d, videoID, accountID)
                      EXCEPT !.likesCount[videoID] = @ + 1,
                             !.popularity[videoID] = @ + 1]
         IN  [ok |-> ~IsLiked(d, videoID, accountID), db |-> d1]
LikeTx(d, videoID, accountID, txerr) ==
    IF txerr \/ ~IsExist(d, videoID) THEN [ok |-> FALSE, db |-> d]
    ELSE IF IsLiked(d, videoID, accountID) THEN [ok |-> FALSE, db |-> d]
    ELSE [ok |-> TRUE,
          db |-> [InsertLike(d, videoID, accountID)
                    EXCEPT !.likesCount[videoID] = @ + 1,
                           !.popularity[videoID] = @ + 1]]

\* LikeService.Unlike, transaction: delete (RowsAffected == 0 is an error),
\* GREATEST(likes_count - 1, 0), GREATEST(popularity - 1, 0).
UnlikeTx(d, videoID, accountID, txerr) ==
    IF txerr THEN [ok |-> FALSE, db |-> d]
    ELSE IF ~IsLiked(d, videoID, accountID) THEN [ok |-> FALSE, db |-> d]
    ELSE [ok |-> TRUE,
          db |-> ChangePopularity(
                   ChangeLikesCount(DeleteLike(d, videoID, accountID),
                                    videoID, -1),
                   videoID, -1)]

\* CommentService.Publish, transaction: video row, insert, popularity + 1.
CommentTx(d, videoID, authorID, txerr) ==
    IF txerr \/ ~IsExist(d, videoID) THEN [ok |-> FALSE, db |-> d]
    ELSE [ok |-> TRUE,
          db |-> [CreateComment(d, videoID, authorID)
                    EXCEPT !.popularity[videoID] = @ + 1]]

\* ------------------------------------------------------ LikeService ----
\* what the call did on the state target
StateDirect(enqueued, txok, txerr, conflict) ==
    IF enqueued THEN "skip"
    ELSE IF txok THEN "done"
    ELSE IF ~txerr /\ conflict # "" THEN conflict
    ELSE "err"

\* what the call did on the popularity target
PopDirect(enqueued, reached, nowrite) ==
    IF enqueued \/ ~reached THEN "skip"
    ELSE IF nowrite THEN "dropped"
    ELSE "applied"

Pub(ok) == IF ok THEN "ok" ELSE "fail"

\* an outcome is chosen only for a call that is made: no error of a
\* transaction that does not run, no failed write of a bucket not written
Relevant(enqueued, txerr, writes, nowrite) ==
    /\ enqueued => ~txerr
    /\ ~writes => ~nowrite

\* Like, first half: parameter checks, IsExist, IsLiked.
LikeValidate(a, v) ==
    /\ call = Idle
    /\ IF v = 0 \/ ~IsExist(DB, v) \/ IsLiked(DB, v, a)
         THEN /\ ev' = Rejected("like")
              /\ UNCHANGED call
         ELSE /\ call' = [op |-> "like", acct |-> a, video |-> v]
              /\ ev' = NoEv
    /\ UNCHANGED <<varsDB, hot, varsBus, varsReplay>>
    /\ UNCHANGED <<varsFeed, varsRest>>

\* Like, second half: publish the like event and the popularity event; when
\* both are enqueued return; a like event not enqueued is written by the
\* transaction, a popularity event not enqueued by UpdatePopularityCache.
Like ==
    /\ call.op = "like"
    /\ \E pubLike \in BOOLEAN, pubPop \in BOOLEAN, txerr \in BOOLEAN,
          nowrite \in BOOLEAN :
         LET v == call.video
             a == call.acct
             mysqlEnqueued == pubLike
             redisEnqueued == pubPop
             tx == IF mysqlEnqueued THEN [ok |-> TRUE, db |-> DB]
                   ELSE LikeTx(DB, v, a, txerr)
             reached == tx.ok /\ ~(mysqlEnqueued /\ redisEnqueued)
         IN  /\ Room(likeQ, pubLike) /\ Room(popularityQ, pubPop)
             /\ Relevant(mysqlEnqueued, txerr, reached /\ ~redisEnqueued,
                         nowrite)
             /\ likeQ' = PublishJSON(likeQ, LikeEvent("like", a, v), pubLike)
             /\ popularityQ' =
                  PublishJSON(popularityQ, PopularityEvent(v, 1), pubPop)
             /\ SetDB(tx.db)
             /\ hot' = IF reached /\ ~redisEnqueued
                         THEN UpdatePopularityCache(hot, v, 1, nowrite)
                         ELSE hot
             /\ ev' = ApiEv("like", IF tx.ok THEN "ok" ELSE "err",
                            Pub(mysqlEnqueued),
                            StateDirect(mysqlEnqueued, tx.ok, txerr,
                                        IF IsLiked(DB, v, a) THEN "dup"
                                                             ELSE ""),
                            Pub(redisEnqueued),
                            PopDirect(redisEnqueued, reached, nowrite),
                            CountersDiffer(DB, tx.db))
    /\ call' = Idle
    /\ UNCHANGED <<commentQ, socialQ, varsReplay>>
    /\ UNCHANGED <<varsFeed, varsRest>>
    /\ Capped

\* Unlike, first half: parameter checks, IsExist, IsLiked.
UnlikeValidate(a, v) ==
    /\ call = Idle
    /\ IF v = 0 \/ ~IsExist(DB, v) \/ ~IsLiked(DB, v, a)
         THEN /\ ev' = Rejected("unlike")
              /\ UNCHANGED call
         ELSE /\ call' = [op |-> "unlike", acct |-> a, video |-> v]
              /\ ev' = NoEv
    /\ UNCHANGED <<varsDB, hot, varsBus, varsReplay>>
    /\ UNCHANGED <<varsFeed, varsRest>>

\* Unlike, second half: as Like, with the deleting transaction and change -1.
Unlike ==
    /\ call.op = "unlike"
    /\ \E pubLike \in BOOLEAN, pubPop \in BOOLEAN, txerr \in BOOLEAN,
          nowrite \in BOOLEAN :
         LET v == call.video
             a == call.acct
             mysqlEnqueued == pubLike
             redisEnqueued == pubPop
             tx == IF mysqlEnqueued THEN [ok |-> TRUE, db |-> DB]
                   ELSE UnlikeTx(DB, v, a, txerr)
             reached == tx.ok /\ ~(mysqlEnqueued /\ redisEnqueued)
         IN  /\ Room(likeQ, pubLike) /\ Room(popularityQ, pubPop)
             /\ Relevant(mysqlEnqueued, txerr, reached /\ ~redisEnqueued,
                         nowrite)
             /\ likeQ' = PublishJSON(likeQ, LikeEvent("unlike", a, v), pubLike)
             /\ popularityQ' =
                  PublishJSON(popularityQ, PopularityEvent(v, -1), pubPop)
             /\ SetDB(tx.db)
             /\ hot' = IF reached /\ ~redisEnqueued
                         THEN UpdatePopularityCache(hot, v, -1, nowrite)
                         ELSE hot
             /\ ev' = ApiEv("unlike", IF tx.ok THEN "ok" ELSE "err",
                            Pub(mysqlEnqueued),
                            StateDirect(mysqlEnqueued, tx.ok, txerr,
                                        IF IsLiked(DB, v, a) THEN ""
                                                             ELSE "absent"),
                            Pub(redisEnqueued),
                            PopDirect(redisEnqueued, reached, nowrite),
                            CountersDiffer(DB, tx.db))
    /\ call' = Idle
    /\ UNCHANGED <<commentQ, socialQ, varsReplay>>
    /\ UNCHANGED <<varsFeed, varsRest>>
    /\ Capped

\* ----------------------------------------------------------- workers ----
\* points at which a database call of a handler returns an error
LikeFails == {"none", "early", "count", "pop"}
Done(d) == [db |-> d, err |-> FALSE]
Failed(d) == [db |-> d, err |-> TRUE]

\* LikeWorker.applyLike: IsExist, LikeIgnoreDuplicate, and only for a created
\* row ChangeLikesCount(+1) and ChangePopularity(+1); the statements are not
\* in a transaction.
applyLike(d, userID, videoID, fail) ==
    IF fail = "early" THEN Failed(d)
    ELSE IF ~IsExist(d, videoID) THEN Done(d)
    ELSE LET created == LikeIgnoreDuplicate(d, videoID, userID)
             d1 == InsertLike(d, videoID, userID)
             d2 == ChangeLikesCount(d1, videoID, 1)
         IN  IF ~created THEN Done(d1)
             ELSE IF fail = "count" THEN Failed(d1)
             ELSE IF fail = "pop" THEN Failed(d2)
             ELSE Done(ChangePopularity(d2, videoID, 1))

\* LikeWorker.applyUnlike: IsExist, DeleteByVideoAndAccount, and only for a
\* deleted row ChangeLikesCount(-1) and ChangePopularity(-1).
applyUnlike(d, userID, videoID, fail) ==
    IF fail = "early" THEN Failed(d)
    ELSE IF ~IsExist(d, videoID) THEN Done(d)
    ELSE LET deleted == DeleteByVideoAndAccount(d, videoID, userID)
             d1 == DeleteLike(d, videoID, userID)
             d2 == ChangeLikesCount(d1, videoID, -1)
         IN  IF ~deleted THEN Done(d1)
             ELSE IF fail = "count" THEN Failed(d1)
             ELSE IF fail = "pop" THEN Failed(d2)
             ELSE Done(ChangePopularity(d2, videoID, -1))

\* LikeWorker.process
LikeProcess(d, evt, fail) ==
    IF evt = Malformed THEN Done(d)
    ELSE IF evt.user = 0 \/ evt.video = 0 THEN Done(d)
    ELSE IF evt.action = "like" THEN applyLike(d, evt.user, evt.video, fail)
    ELSE IF evt.action = "unlike" THEN applyUnlike(d, evt.user, evt.video, fail)
    ELSE Done(d)

\* what the row statement of a like / unlike delivery met
LikeRowOp(d, evt, r) ==
    IF r.err /\ r.db = d THEN "err"
    ELSE IF evt = Malformed THEN "skip"
    ELSE IF evt.action \notin {"like", "unlike"} \/ ~IsExist(d, evt.video)
      THEN "skip"
    ELSE IF evt.action = "like"
      THEN (IF IsLiked(d, evt.video, evt.user) THEN "dup" ELSE "created")
      ELSE (IF IsLiked(d, evt.video, evt.user) THEN "deleted" ELSE "absent")

Res(r, ack) == IF r.err THEN "nack" ELSE ack

\* the chosen failure point is one the handler reaches, and an Ack outcome
\* is chosen only when the handler sends an Ack
Reached(r, fail, ack) ==
    /\ fail # "none" => r.err
    /\ r.err => ack = "acked"

\* LikeWorker.handleDelivery
LikeWorkerDeliver ==
    /\ likeQ # <<>>
    /\ \E fail \in LikeFails, ack \in Acks :
         LET evt == Head(likeQ)
             r == LikeProcess(DB, evt, fail)
         IN  /\ Reached(r, fail, ack)
             /\ SetDB(r.db)
             /\ likeQ' = Settle(likeQ, r.err, ack)
             /\ ev' = WorkerEv(evt.action, Res(r, ack), LikeRowOp(DB, evt, r),
                               CountersDiffer(DB, r.db))
    /\ UNCHANGED <<hot, popularityQ, commentQ, socialQ, call, varsReplay>>
    /\ UNCHANGED <<varsFeed, varsRest>>
    /\ Capped

\* PopularityWorker.handleDelivery: process always returns nil, so the message
\* is acknowledged whether or not the bucket was written.
PopularityWorkerDeliver ==
    /\ popularityQ # <<>>
    /\ \E nowrite \in BOOLEAN, ack \in Acks :
         LET evt == Head(popularityQ) IN
         /\ hot' = UpdatePopularityCache(hot, evt.video, evt.change, nowrite)
         /\ popularityQ' = Settle(popularityQ, FALSE, ack)
         /\ ev' = WorkerEv("popularity", ack,
                           IF nowrite THEN "dropped" ELSE "applied", FALSE)
    /\ UNCHANGED <<varsDB, likeQ, commentQ, socialQ, call, varsReplay>>
    /\ UNCHANGED <<varsFeed, varsRest>>
    /\ Capped

\* --------------------------------------------------- CommentService ----
Contents == {"", "text"}       \* content of a request after TrimSpace
CommentIDs == 0..MaxComments   \* comment_id of a delete request or event

\* comment.AuthorID != accountID: "permission denied"
NotAuthorNever(d, id, a) == FALSE
NotAuthor(d, id, a) == \E c \in GetByID(d, id) : c.author # a

\* CommentService.Publish
CommentPublish(a, v, content) ==
    /\ IF v = 0 \/ content = "" \/ ~IsExist(DB, v)
         THEN /\ ev' = Rejected("comment")
              /\ UNCHANGED <<varsDB, hot, commentQ, popularityQ>>
         ELSE \E pubComment \in BOOLEAN, pubPop \in BOOLEAN, txerr \in BOOLEAN,
                 nowrite \in BOOLEAN :
                LET mysqlEnqueued == pubComment
                    redisEnqueued == pubPop
                    tx == IF mysqlEnqueued THEN [ok |-> TRUE, db |-> DB]
                          ELSE CommentTx(DB, v, a, txerr)
                    reached == tx.ok /\ ~(mysqlEnqueued /\ redisEnqueued)
                IN  /\ Room(commentQ, pubComment) /\ Room(popularityQ, pubPop)
                    /\ Relevant(mysqlEnqueued, txerr,
                                reached /\ ~redisEnqueued, nowrite)
                    /\ commentQ' =
                         PublishJSON(commentQ, CommentEvent("publish", v, a, 0),
                                     pubComment)
                    /\ popularityQ' =
                         PublishJSON(popularityQ, PopularityEvent(v, 1), pubPop)
                    /\ SetDB(tx.db)
                    /\ hot' = IF reached /\ ~redisEnqueued
                                THEN UpdatePopularityCache(hot, v, 1, nowrite)
                                ELSE hot
                    /\ ev' = ApiEv("comment", IF tx.ok THEN "ok" ELSE "err",
                                   Pub(mysqlEnqueued),
                                   StateDirect(mysqlEnqueued, tx.ok, txerr, ""),
                                   Pub(redisEnqueued),
                                   PopDirect(redisEnqueued, reached, nowrite),
                                   CountersDiffer(DB, tx.db))
    /\ UNCHANGED <<likeQ, socialQ, call, varsReplay>>
    /\ UNCHANGED <<varsFeed, varsRest>>
    /\ Capped

\* CommentService.Delete: GetByID, the author check, publish the delete event,
\* and DeleteComment when the publish failed.
CommentDelete(a, id) ==
    /\ IF GetByID(DB, id) = {} \/ NotAuthor(DB, id, a)
         THEN /\ ev' = Rejected("cdelete")
              /\ UNCHANGED <<varsDB, commentQ>>
         ELSE \E pubDelete \in BOOLEAN, dberr \in BOOLEAN :
                /\ Room(commentQ, pubDelete)
                /\ commentQ' =
                     PublishJSON(commentQ, CommentEvent("delete", 0, 0, id),
                                 pubDelete)
                /\ SetDB(IF pubDelete \/ dberr THEN DB ELSE DeleteComment(DB, id))
                /\ ev' = ApiEv("cdelete",
                               IF ~pubDelete /\ dberr THEN "err" ELSE "ok",
                               Pub(pubDelete),
                               StateDirect(pubDelete, ~dberr, dberr, ""),
                               "skip", "skip", FALSE)
    /\ deleteCall' = [acct |-> a, id |-> id]
    /\ UNCHANGED <<hot, likeQ, popularityQ, socialQ, call, deliveries, first,
                   unfollowed>>
    /\ UNCHANGED <<varsFeed, varsRest>>

\* CommentWorker.applyPublish: IsExist, CreateComment, ChangePopularity(+1);
\* the statements are not in a transaction.
CommentFails == {"none", "early", "pop"}
applyPublish(d, evt, fail) ==
    IF evt.video = 0 \/ evt.author = 0 THEN Done(d)
    ELSE IF fail = "early" THEN Failed(d)
    ELSE IF ~IsExist(d, evt.video) THEN Done(d)
    ELSE LET d1 == CreateComment(d, evt.video, evt.author)
         IN  IF fail = "pop" THEN Failed(d1)
             ELSE Done(ChangePopularity(d1, evt.video, 1))

\* CommentWorker.applyDelete: GetByID, nothing to do when the row is absent,
\* else DeleteComment.
applyDeleteAbsentErr(d, evt, fail) ==
    IF evt.id = 0 THEN Done(d)
    ELSE IF fail = "early" \/ GetByID(d, evt.id) = {} THEN Failed(d)
    ELSE Done(DeleteComment(d, evt.id))
applyDelete(d, evt, fail) ==
    IF evt.id = 0 THEN Done(d)
    ELSE IF fail = "early" THEN Failed(d)
    ELSE IF GetByID(d, evt.id) = {} THEN Done(d)
    ELSE Done(DeleteComment(d, evt.id))

\* CommentWorker.process
CommentProcess(d, evt, fail) ==
    IF evt = Malformed THEN Done(d)
    ELSE IF evt.action = "publish" THEN applyPublish(d, evt, fail)
    ELSE IF evt.action = "delete" THEN applyDelete(d, evt, fail)
    ELSE Done(d)

\* CommentWorker.handleDelivery
CommentWorkerDeliver ==
    /\ commentQ # <<>>
    /\ \E fail \in CommentFails, ack \in Acks :
         LET evt == Head(commentQ)
             r == CommentProcess(DB, evt, fail)
         IN  /\ Reached(r, fail, ack)
             /\ SetDB(r.db)
             /\ commentQ' = Settle(commentQ, r.err, ack)
             /\ ev' = WorkerEv(evt.action, Res(r, ack),
                               IF r.db.comments = comments THEN "same"
                                                          ELSE "changed",
                               CountersDiffer(DB, r.db))
    /\ UNCHANGED <<hot, likeQ, popularityQ, socialQ, call, varsReplay>>
    /\ UNCHANGED <<varsFeed, varsRest>>
    /\ Capped

\* ----------------------------------------------------- VideoService ----
\* VideoService.UpdatePopularity: the repository update, then the popularity
\* event, and the minute bucket directly when the publish failed.
VideoServiceUpdatePopularity(id, change) ==
    /\ IsExist(DB, id)
    /\ \E dberr \in BOOLEAN, pubPop \in BOOLEAN, nowrite \in BOOLEAN :
         LET d1 == IF dberr THEN DB ELSE UpdatePopularity(DB, id, change)
             reached == ~dberr /\ ~pubPop
         IN  /\ Room(popularityQ, ~dberr /\ pubPop)
             /\ SetDB(d1)
             /\ popularityQ' = PublishJSON(popularityQ,
                                           PopularityEvent(id, change),
                                           ~dberr /\ pubPop)
             /\ hot' = IF reached
                         THEN UpdatePopularityCache(hot, id, change, nowrite)
                         ELSE hot
             /\ ev' = ApiEv("popularity", IF dberr THEN "err" ELSE "ok",
                            "skip", IF dberr THEN "err" ELSE "done",
                            Pub(~dberr /\ pubPop),
                            PopDirect(pubPop, reached, nowrite),
                            CountersDiffer(DB, d1))
    /\ UNCHANGED <<likeQ, commentQ, socialQ, call, varsReplay>>
    /\ UNCHANGED <<varsFeed, varsRest>>
    /\ Capped

\* ---------------------------------------------------- SocialService ----
VloggerIDs == 1..(NumAccounts + 1)   \* the last id has no account row

\* SocialService.Follow: both accounts exist, not self, not yet followed; the
\* follow event is published and its result discarded; repo.Follow runs.
Follow(f, g) ==
    /\ IF g \notin Accounts \/ f = g \/ IsFollowed(DB, f, g)
         THEN /\ ev' = Rejected("follow")
              /\ UNCHANGED <<varsDB, socialQ, unfollowed>>
         ELSE \E pubFollow \in BOOLEAN, dberr \in BOOLEAN :
                /\ Room(socialQ, pubFollow)
                /\ socialQ' = PublishJSON(socialQ, SocialEvent("follow", f, g),
                                          pubFollow)
                /\ SetDB(IF dberr THEN DB ELSE RepoFollow(DB, f, g))
                /\ unfollowed' = IF dberr THEN unfollowed
                                 ELSE unfollowed \ {<<f, g>>}
                /\ ev' = ApiEv("follow", IF dberr THEN "err" ELSE "ok",
                               Pub(pubFollow),
                               IF dberr THEN "err" ELSE "done",
                               "skip", "skip", FALSE)
    /\ UNCHANGED <<hot, likeQ, popularityQ, commentQ, call, deliveries, first,
                   deleteCall>>
    /\ UNCHANGED <<varsFeed, varsRest>>

\* SocialService.Unfollow: both accounts exist, followed; the unfollow event
\* is published and its result discarded; repo.Unfollow runs.
Unfollow(f, g) ==
    /\ IF g \notin Accounts \/ ~IsFollowed(DB, f, g)
         THEN /\ ev' = Rejected("unfollow")
              /\ UNCHANGED <<varsDB, socialQ, unfollowed>>
         ELSE \E pubUnfollow \in BOOLEAN, dberr \in BOOLEAN :
                /\ Room(socialQ, pubUnfollow)
                /\ socialQ' = PublishJSON(socialQ,
                                          SocialEvent("unfollow", f, g),
                                          pubUnfollow)
                /\ SetDB(IF dberr THEN DB ELSE RepoUnfollow(DB, f, g))
                /\ unfollowed' = IF dberr THEN unfollowed
                                 ELSE unfollowed \cup {<<f, g>>}
                /\ ev' = ApiEv("unfollow", IF dberr THEN "err" ELSE "ok",
                               Pub(pubUnfollow),
                               IF dberr THEN "err" ELSE "done",
                               "skip", "skip", FALSE)
    /\ UNCHANGED <<hot, likeQ, popularityQ, commentQ, call, deliveries, first,
                   deleteCall>>
    /\ UNCHANGED <<varsFeed, varsRest>>

\* SocialWorker.process: follow inserts the edge and takes error 1062 as
\* success; unfollow deletes it.
SocialFails == {"none", "early"}
SocialProcess(d, evt, fail) ==
    IF evt = Malformed THEN Done(d)
    ELSE IF evt.follower = 0 \/ evt.vlogger = 0 THEN Done(d)
    ELSE IF evt.action \notin {"follow", "unfollow"} THEN Done(d)
    ELSE IF fail = "early" THEN Failed(d)
    ELSE IF evt.action = "follow"
      THEN Done(RepoFollow(d, evt.follower, evt.vlogger))
      ELSE Done(RepoUnfollow(d, evt.follower, evt.vlogger))

\* SocialWorker.handleDelivery
SocialWorkerDeliver ==
    /\ socialQ # <<>>
    /\ \E fail \in SocialFails, ack \in Acks :
         LET evt == Head(socialQ)
             r == SocialProcess(DB, evt, fail)
         IN  /\ Reached(r, fail, ack)
             /\ SetDB(r.db)
             /\ socialQ' = Settle(socialQ, r.err, ack)
             /\ ev' = WorkerEv(evt.action, Res(r, ack),
                               IF r.db.follows = follows THEN "same"
                                                        ELSE "changed",
                               FALSE)
    /\ UNCHANGED <<hot, likeQ, popularityQ, commentQ, call, varsReplay>>
    /\ UNCHANGED <<varsFeed, varsRest>>

\* ------------------------------------------------------------ replay ----
\* One message is delivered again and again, each time processed without a
\* failure, until an Ack reaches the broker.
NoFirst == [changed |-> FALSE, db |-> EmptyDB]
NoCall == [acct |-> 0, id |-> 0]

Snapshot(d, before) ==
    [changed |-> d # before, db |-> d]

ReplayLike ==
    /\ likeQ # <<>> /\ deliveries < MaxDeliver
    /\ \E ack \in Acks :
         LET evt == Head(likeQ)
             r == LikeProcess(DB, evt, "none")
         IN  /\ SetDB(r.db)
             /\ likeQ' = Settle(likeQ, r.err, ack)
             /\ first' = IF deliveries = 0 THEN Snapshot(r.db, DB) ELSE first
             /\ ev' = WorkerEv(evt.action, Res(r, ack), LikeRowOp(DB, evt, r),
                               CountersDiffer(DB, r.db))
    /\ deliveries' = deliveries + 1
    /\ UNCHANGED <<deleteCall, unfollowed>>
    /\ UNCHANGED <<hot, popularityQ, commentQ, socialQ, call>>
    /\ UNCHANGED <<varsFeed, varsRest>>

ReplaySocial ==
    /\ socialQ # <<>> /\ deliveries < MaxDeliver
    /\ \E ack \in Acks :
         LET evt == Head(socialQ)
             r == SocialProcess(DB, evt, "none")
         IN  /\ SetDB(r.db)
             /\ socialQ' = Settle(socialQ, r.err, ack)
             /\ first' = IF deliveries = 0 THEN Snapshot(r.db, DB) ELSE first
             /\ ev' = WorkerEv(evt.action, Res(r, ack),
                               IF r.db.follows = follows THEN "same"
                                                        ELSE "changed",
                               FALSE)
    /\ deliveries' = deliveries + 1
    /\ UNCHANGED <<deleteCall, unfollowed>>
    /\ UNCHANGED <<hot, likeQ, popularityQ, commentQ, call>>
    /\ UNCHANGED <<varsFeed, varsRest>>

ReplayComment ==
    /\ commentQ # <<>> /\ deliveries < MaxDeliver
    /\ \E ack \in Acks :
         LET evt == Head(commentQ)
             r == CommentProcess(DB, evt, "none")
         IN  /\ SetDB(r.db)
             /\ commentQ' = Settle(commentQ, r.err, ack)
             /\ first' = IF deliveries = 0 THEN Snapshot(r.db, DB) ELSE first
             /\ ev' = WorkerEv(evt.action, Res(r, ack),
                               IF r.db.comments = comments THEN "same"
                                                          ELSE "changed",
                               CountersDiffer(DB, r.db))
    /\ deliveries' = deliveries + 1
    /\ UNCHANGED <<deleteCall, unfollowed>>
    /\ UNCHANGED <<hot, likeQ, popularityQ, socialQ, call>>
    /\ UNCHANGED <<varsFeed, varsRest>>

\* ======================================================================
\* Part III  - cursor pagination of the ranked feeds
\* ======================================================================
\* a row of the videos table as the ranked queries see it
Row(id, likesCount_, popularity_, createTime) ==
    [id |-> id, likes |-> likesCount_, pop |-> popularity_, ctime |-> createTime]

Min(a, b) == IF a < b THEN a ELSE b

\* Limit(n) of a query
Limit(rows, n) == SubSeq(rows, 1, Min(n, Len(rows)))

IDs(rows) == [i \in 1..Len(rows) |-> rows[i].id]

\* the handlers' normalisation of limit
PageLimit(l) == IF l <= 0 \/ l > LimitCap THEN DefaultLimit ELSE l

\* ------------------------------------------------- ListLikesCount ----
\* Order("likes_count DESC, id DESC"): a sorts before b
LikesOrder(a, b) == a.likes > b.likes \/ (a.likes = b.likes /\ a.id > b.id)

RECURSIVE OrderByLikes(_)
OrderByLikes(S) ==
    IF S = {} THEN <<>>
    ELSE LET h == CHOOSE x \in S : \A y \in S \ {x} : LikesOrder(x, y)
         IN  <<h>> \o OrderByLikes(S \ {h})

\* Where("(likes_count < ?) OR (likes_count = ? AND id < ?)")
LikesWhereNoTie(v, c) == v.likes < c.likes
LikesWhere(v, c) == v.likes < c.likes \/ (v.likes = c.likes /\ v.id < c.id)

\* FeedRepository.ListLikesCountWithCursor
ListLikesCountWithCursor(t, limit, c) ==
    Limit(OrderByLikes({v \in t : c.has => LikesWhere(v, c)}), limit)

\* cursor fields of a ListLikesCountRequest (pointers: has* = not nil)
NoLikesReq == [hasLc |-> FALSE, lc |-> 0, hasId |-> FALSE, id |-> 0]
LikesReq(lc, id) == [hasLc |-> TRUE, lc |-> lc, hasId |-> TRUE, id |-> id]

\* FeedHandler.ListLikesCount: the cursor it hands to the service, or 400
LikesCursor(req) ==
    IF ~req.hasLc /\ ~req.hasId
      THEN [status |-> "ok", has |-> FALSE, likes |-> 0, id |-> 0]
    ELSE IF ~req.hasLc \/ ~req.hasId \/ req.lc < 0
      THEN [status |-> "bad", has |-> FALSE, likes |-> 0, id |-> 0]
    ELSE IF req.id = 0
      THEN [status |-> IF req.lc # 0 THEN "bad" ELSE "ok", has |-> FALSE,
            likes |-> 0, id |-> 0]
    ELSE [status |-> "ok", has |-> TRUE, likes |-> req.lc, id |-> req.id]

\* FeedService.ListLikesCount: the page, has_more and the next cursor
ListLikesCount(t, limit, c) ==
    LET videos == ListLikesCountWithCursor(t, limit, c)
    IN  [list |-> videos,
         hasMore |-> Len(videos) = limit,
         next |-> IF Len(videos) > 0
                    THEN LikesReq(videos[Len(videos)].likes,
                                  videos[Len(videos)].id)
                    ELSE NoLikesReq]

\* the client asks for the next page with the cursor of the last response
LikesPage ==
    /\ pstate = "paging"
    /\ LET c == LikesCursor(preq)
           r == ListLikesCount(ptable, PageLimit(plimit), c)
       IN  IF c.status = "bad"
             THEN /\ pstate' = "rejected"
                  /\ UNCHANGED <<preq, pseen>>
             ELSE /\ pseen' = pseen \o IDs(r.list)
                  /\ preq' = IF r.list # <<>> THEN r.next ELSE preq
                  /\ pstate' = IF r.list = <<>> \/ ~r.hasMore THEN "done"
                                                             ELSE "paging"
    /\ UNCHANGED <<ptable, plimit>>
    /\ UNCHANGED varsNotPage

\* tables of up to NumRows rows; ids are auto-increment keys, from 1
LikesTables ==
    UNION {{{Row(i, f[i], 0, 1) : i \in 1..n} : f \in [1..n -> 0..MaxScore]} :
           n \in 0..NumRows}

InitLikesPages ==
    /\ ptable \in LikesTables
    /\ plimit \in 1..MaxLimit
    /\ preq = NoLikesReq
    /\ pseen = <<>>
    /\ pstate = "paging"

\* ----------------------------------------------- ListByPopularity ----
\* Order("popularity DESC, create_time DESC, id DESC"): a sorts before b
PopularityOrder(a, b) ==
    \/ a.pop > b.pop
    \/ a.pop = b.pop /\ a.ctime > b.ctime
    \/ a.pop = b.pop /\ a.ctime = b.ctime /\ a.id > b.id

RECURSIVE OrderByPopularity(_)
OrderByPopularity(S) ==
    IF S = {} THEN <<>>
    ELSE LET h == CHOOSE x \in S : \A y \in S \ {x} : PopularityOrder(x, y)
         IN  <<h>> \o OrderByPopularity(S \ {h})

\* Where("(popularity < ?) OR (popularity = ? AND create_time < ?) OR
\*        (popularity = ? AND create_time = ? AND id < ?)")
PopularityWhereNoIdTie(v, c) ==
    \/ v.pop < c.pop
    \/ v.pop = c.pop /\ v.ctime < c.before
PopularityWhere(v, c) ==
    \/ v.pop < c.pop
    \/ v.pop = c.pop /\ v.ctime < c.before
    \/ v.pop = c.pop /\ v.ctime = c.before /\ v.id < c.id

\* FeedRepository.ListByPopularity: the filter is applied only when the time
\* is not the zero time and the id is positive
RepoListByPopularity(t, limit, c) ==
    Limit(OrderByPopularity({v \in t : (c.before # 0 /\ c.id > 0)
                                          => PopularityWhere(v, c)}), limit)

\* cursor fields of a ListByPopularityRequest: latest_popularity (0 when
\* absent), latest_before (0: the zero time), latest_id_before (a pointer)
NoPopularityReq == [pop |-> 0, before |-> 0, hasId |-> FALSE, id |-> 0]
PopularityReq(pop, before, id) ==
    [pop |-> pop, before |-> before, hasId |-> TRUE, id |-> id]

\* FeedHandler.ListByPopularity: the cursor it hands to the service, or 400
PopularityCursor(req) ==
    IF req.pop < 0
      THEN [status |-> "bad", pop |-> 0, before |-> 0, id |-> 0]
    ELSE IF req.before # 0 \/ req.hasId
      THEN IF req.before = 0 \/ ~req.hasId \/ req.id = 0
             THEN [status |-> "bad", pop |-> 0, before |-> 0, id |-> 0]
             ELSE [status |-> "ok", pop |-> req.pop, before |-> req.before,
                   id |-> req.id]
    ELSE [status |-> "ok", pop |-> 0, before |-> 0, id |-> 0]

\* FeedService.ListByPopularity with no cache client: the database page,
\* has_more and the next triple
ListByPopularityDB(t, limit, c) ==
    LET videos == RepoListByPopularity(t, limit, c)
    IN  [list |-> videos,
         hasMore |-> Len(videos) = limit,
         next |-> IF Len(videos) > 0
                    THEN PopularityReq(videos[Len(videos)].pop,
                                       videos[Len(videos)].ctime,
                                       videos[Len(videos)].id)
                    ELSE NoPopularityReq]

\* the client asks for the next page with the triple of the last response
PopularityPage ==
    /\ pstate = "paging"
    /\ LET c == PopularityCursor(preq)
           r == ListByPopularityDB(ptable, PageLimit(plimit), c)
       IN  IF c.status = "bad"
             THEN /\ pstate' = "rejected"
                  /\ UNCHANGED <<preq, pseen>>
             ELSE /\ pseen' = pseen \o IDs(r.list)
                  /\ preq' = IF r.list # <<>> THEN r.next ELSE preq
                  /\ pstate' = IF r.list = <<>> \/ ~r.hasMore THEN "done"
                                                             ELSE "paging"
    /\ UNCHANGED <<ptable, plimit>>
    /\ UNCHANGED varsNotPage

\* create_time is set on insert and is never the zero time
PopularityTables ==
    UNION {{{Row(i, 0, f[i][1], f[i][2]) : i \in 1..n} :
              f \in [1..n -> (0..MaxScore) \X (1..MaxTime)]} :
           n \in 0..NumRows}

InitPopularityPages ==
    /\ ptable \in PopularityTables
    /\ plimit \in 1..MaxLimit
    /\ preq = NoPopularityReq
    /\ pseen = <<>>
    /\ pstate = "paging"

\* ------------------------------------- ListLatest, ListByFollowing ----
\* create_time has sub-second precision: a time is a number of ticks,
\* Ticks of them to the second
\* time.Time.Unix(): the whole seconds of a time
UnixSeconds(t) == t \div Ticks

\* time.Unix(sec, 0)
TimeOfUnix(sec) == sec * Ticks

\* a row of the videos table as the two queries see it
Video(id, author, createTime) == [id |-> id, author |-> author, ctime |-> createTime]

\* Select("vlogger_id").Where("follower_id = ?", viewer): the viewer of the
\* model follows vlogger 1
Vloggers == {1}

\* Order("create_time DESC").Limit(limit): the database may return rows of
\* equal create_time in any order
LatestOrders(S) ==
    {o \in [1..Cardinality(S) -> S] :
        /\ \A i, j \in 1..Cardinality(S) : i < j => o[i] # o[j]
        /\ \A i, j \in 1..Cardinality(S) : i < j => o[i].ctime >= o[j].ctime}

\* the rows FeedRepository.ListLatest selects: Where("create_time < ?") when
\* latestBefore is not the zero time
RepoListLatest(t, latestBefore) ==
    {v \in t : latestBefore # 0 => v.ctime < latestBefore}

\* the rows FeedRepository.ListByFollowing selects
RepoListByFollowing(t, latestBefore) ==
    {v \in t : /\ v.author \in Vloggers
               /\ latestBefore # 0 => v.ctime < latestBefore}

\* FeedHandler.ListLatest, FeedHandler.ListByFollowing: latest_time > 0 is
\* converted with time.Unix, otherwise the zero time is passed
LatestBefore(latestTime) == IF latestTime > 0 THEN TimeOfUnix(latestTime) ELSE 0

\* FeedService.ListLatest, FeedService.ListByFollowing: the response built
\* from the page of the database
LatestResponse(videos, limit) ==
    [list |-> videos,
     hasMore |-> Len(videos) = limit,
     nextTime |-> IF Len(videos) > 0
                    THEN UnixSeconds(videos[Len(videos)].ctime) ELSE 0]

\* the rows in the scope of a request
InScope(kind, t) ==
    IF kind = "latest" THEN RepoListLatest(t, 0) ELSE RepoListByFollowing(t, 0)

\* the client asks for the next page with the next_time of the last response
LatestPage ==
    /\ pstate = "paging"
    /\ LET before == LatestBefore(preq.latestTime)
           rows == IF preq.kind = "latest" THEN RepoListLatest(ptable, before)
                   ELSE RepoListByFollowing(ptable, before)
       IN  \E o \in LatestOrders(rows) :
             LET r == LatestResponse(Limit(o, PageLimit(plimit)), PageLimit(plimit))
             IN  /\ pseen' = pseen \o IDs(r.list)
                 /\ preq' = [preq EXCEPT !.latestTime = r.nextTime]
                 /\ pstate' = IF r.hasMore THEN "paging" ELSE "done"
    /\ UNCHANGED <<ptable, plimit>>
    /\ UNCHANGED varsNotPage

\* authors of the rows: a vlogger of the viewer and another account
Authors == Vloggers \cup {2}

\* create_time is set on insert: here within the first two seconds that
\* follow second 0 of the epoch
CreateTimes == Ticks..(3 * Ticks - 1)

LatestTables ==
    UNION {{{Video(i, f[i][1], f[i][2]) : i \in 1..n} :
              f \in [1..n -> Authors \X CreateTimes]} :
           n \in 0..NumRows}

InitLatestPages ==
    /\ ptable \in LatestTables
    /\ plimit \in 1..MaxLimit
    /\ preq \in {[kind |-> k, latestTime |-> 0] : k \in {"latest", "following"}}
    /\ pseen = <<>>
    /\ pstate = "paging"

\* ======================================================================
\* Part IV  - the popularity snapshot
\* ======================================================================
Members == 1..NumMembers
NoList == <<0>>            \* no list returned yet
DBList == <<>>             \* the call fell through to the database query

\* ZREVRANGE dest 0 -1: members by score descending, equal scores by member
\* descending
RECURSIVE ZRevRange(_, _)
ZRevRange(score, S) ==
    IF S = {} THEN <<>>
    ELSE LET h == CHOOSE x \in S : \A y \in S \ {x} :
                     score[x] > score[y] \/ (score[x] = score[y] /\ x > y)
         IN  <<h>> \o ZRevRange(score, S \ {h})

Entries(score) == {m \in Members : score[m] # 0}

\* the call enters the cache branch of ListByPopularity
SnapStart(c) ==
    /\ spc[c] = "idle"
    /\ spc' = [spc EXCEPT ![c] = "exists"]
    /\ UNCHANGED <<bucket, snapExists, snapScore, snapTTL, sexists, sres,
                   life, differs>>
    /\ UNCHANGED varsNotSnap

\* exists, _ := f.cache.Exists(opCtx, dest): FALSE when the call fails
SnapExistsResult(e, err) == IF err THEN FALSE ELSE e

SnapCheck(c) ==
    /\ spc[c] = "exists"
    /\ \E err \in BOOLEAN :
         LET e == SnapExistsResult(snapExists, err)
         IN  /\ sexists' = [sexists EXCEPT ![c] = e]
             /\ spc' = [spc EXCEPT ![c] = IF e THEN "range" ELSE "union"]
    /\ UNCHANGED <<bucket, snapExists, snapScore, snapTTL, sres, life, differs>>
    /\ UNCHANGED varsNotSnap

\* _ = f.cache.ZUnionStore(opCtx, dest, keys, "SUM"): dest is replaced by the
\* sum of the buckets and loses its time to live; no entries, no key
SnapUnion(c) ==
    /\ spc[c] = "union"
    /\ \E err \in BOOLEAN :
         IF err THEN UNCHANGED <<snapExists, snapScore, snapTTL, life>>
         ELSE /\ snapExists' = (Entries(bucket) # {})
              /\ snapScore' = bucket
              /\ snapTTL' = FALSE
              /\ life' = IF snapExists /\ Entries(bucket) # {} THEN life
                                                             ELSE NoList
    /\ spc' = [spc EXCEPT ![c] = "expire"]
    /\ UNCHANGED <<bucket, sexists, sres, differs>>
    /\ UNCHANGED varsNotSnap

\* _ = f.cache.Expire(opCtx, dest, 2*time.Minute)
SnapExpire(c) ==
    /\ spc[c] = "expire"
    /\ \E err \in BOOLEAN :
         snapTTL' = IF err THEN snapTTL ELSE snapExists
    /\ spc' = [spc EXCEPT ![c] = "range"]
    /\ UNCHANGED <<bucket, snapExists, snapScore, sexists, sres, life, differs>>
    /\ UNCHANGED varsNotSnap

\* members, err := f.cache.ZRevRange(opCtx, dest, start, stop) for offset 0
\* and a limit that covers the snapshot; an empty result or an error falls
\* through to the database query
SnapRange(c) ==
    /\ spc[c] = "range"
    /\ \E err \in BOOLEAN :
         LET members == IF snapExists /\ ~err
                          THEN ZRevRange(snapScore, Entries(snapScore))
                          ELSE DBList
         IN  /\ sres' = [sres EXCEPT ![c] = members]
             /\ life' = IF snapExists /\ ~err /\ life = NoList THEN members
                                                             ELSE life
             /\ differs' = (differs \/ (snapExists /\ ~err /\ life # NoList
                                          /\ members # life))
    /\ spc' = [spc EXCEPT ![c] = "done"]
    /\ UNCHANGED <<bucket, snapExists, snapScore, snapTTL, sexists>>
    /\ UNCHANGED varsNotSnap

\* UpdatePopularityCache: ZINCRBY of a video in the bucket of the current
\* minute, which lies in the window while the minute is the one of asOf
BucketWrite(m) ==
    /\ bucket[m] < MaxHot
    /\ bucket' = [bucket EXCEPT ![m] = @ + 1]
    /\ UNCHANGED <<snapExists, snapScore, snapTTL, spc, sexists, sres, life,
                   differs>>
    /\ UNCHANGED varsNotSnap

\* the time to live of the snapshot runs out
SnapTimeout ==
    /\ snapExists /\ snapTTL
    /\ snapExists' = FALSE
    /\ snapScore' = [m \in Members |-> 0]
    /\ snapTTL' = FALSE
    /\ life' = NoList
    /\ UNCHANGED <<bucket, spc, sexists, sres, differs>>
    /\ UNCHANGED varsNotSnap

InitSnap ==
    /\ bucket = [m \in Members |-> 0]
    /\ snapExists = FALSE
    /\ snapScore = [m \in Members |-> 0]
    /\ snapTTL = FALSE
    /\ spc = [c \in Callers |-> "idle"]
    /\ sexists = [c \in Callers |-> FALSE]
    /\ sres = [c \in Callers |-> NoList]
    /\ life = NoList
    /\ differs = FALSE

NextSnap ==
    \/ \E c \in Callers : SnapStart(c)
    \/ \E c \in Callers : SnapCheck(c)
    \/ \E c \in Callers : SnapUnion(c)
    \/ \E c \in Callers : SnapExpire(c)
    \/ \E c \in Callers : SnapRange(c)
    \/ \E m \in Members : BucketWrite(m)
    \/ SnapTimeout

\* ======================================================================
\* Part V  - auth gate and session operations
\* ======================================================================
Gates == 1..NumGates
NoToken == 0

\* ------------------------------------------------------- jwt.check ----
\* the response of a finished request is delivered at once: nothing else
\* happens while a request is "done"
Settled == \A r \in Gates : gpc[r] # "done"

\* c.Next() / c.AbortWithStatusJSON: the request leaves the middleware
GateReturn(r) ==
    /\ gpc[r] = "done"
    /\ gpc' = [gpc EXCEPT ![r] = "idle"]
    /\ ghdr' = [ghdr EXCEPT ![r] = "none"]
    /\ gtok' = [gtok EXCEPT ![r] = NoToken]
    /\ gres' = [gres EXCEPT ![r] = "none"]
    /\ gpath' = [gpath EXCEPT ![r] = "none"]
    /\ gdb' = [gdb EXCEPT ![r] = "none"]
    /\ gset' = [gset EXCEPT ![r] = "none"]
    /\ gclean' = [gclean EXCEPT ![r] = TRUE]
    /\ gactive' = [gactive EXCEPT ![r] = NoToken]
    /\ UNCHANGED varsAcct
    /\ UNCHANGED varsNotAuth

\* SoftJWTAuth before check: without an Authorization header the request
\* goes on with no accountID set; a header that is not "Bearer <token>" and
\* a token auth.ParseToken refuses are answered 401. (These requests read
\* nothing that is shared, so each is followed with no other in the gate.)
HeaderOutcome(hdr) == IF hdr = "absent" THEN "anonymous" ELSE "reject"

SoftJWTAuth(r, hdr) ==
    /\ Settled
    /\ \A q \in Gates : gpc[q] = "idle"
    /\ \A q \in Gates : r <= q
    /\ hdr \in {"absent", "malformed", "invalid"}
    /\ gpc' = [gpc EXCEPT ![r] = "done"]
    /\ ghdr' = [ghdr EXCEPT ![r] = hdr]
    /\ gres' = [gres EXCEPT ![r] = HeaderOutcome(hdr)]
    /\ UNCHANGED <<gtok, gpath, gdb, gset, gclean, gactive>>
    /\ UNCHANGED varsAcct
    /\ UNCHANGED varsNotAuth

\* a request with a validly signed, unexpired token of the account arrives
\* (it takes the lowest free slot) and is handed to check
GateStart(r, tok) ==
    /\ Settled
    /\ gpc[r] = "idle"
    /\ \A q \in Gates : q < r => gpc[q] # "idle"
    /\ tok \in 1..issued
    /\ gpc' = [gpc EXCEPT ![r] = "get"]
    /\ ghdr' = [ghdr EXCEPT ![r] = "bearer"]
    /\ gtok' = [gtok EXCEPT ![r] = tok]
    /\ gclean' = [gclean EXCEPT ![r] = (apc = "idle")]
    /\ gactive' = [gactive EXCEPT ![r] = IF apc = "idle" THEN active
                                                         ELSE NoToken]
    /\ UNCHANGED <<gres, gpath, gdb, gset>>
    /\ UNCHANGED varsAcct
    /\ UNCHANGED varsNotAuth

\* if string(b) != tokenString: 401; else admitted from the cache
HitAdmitsAlways(b, tok) == TRUE
HitAdmits(b, tok) == b = tok

\* b, err := cache.GetBytes(cacheCtx, key): a value, a miss or another error
GateGet(r) ==
    /\ Settled
    /\ gpc[r] = "get"
    /\ \E err \in BOOLEAN :
         /\ IF err \/ cacheToken = NoToken
              THEN /\ gpath' = [gpath EXCEPT ![r] =
                                  IF ~err THEN "miss"
                                  ELSE IF cacheToken \in {NoToken, gtok[r]}
                                    THEN "geterr" ELSE "geterrDiffer"]
                   /\ gpc' = [gpc EXCEPT ![r] = "find"]
                   /\ UNCHANGED gres
              ELSE /\ gpath' = [gpath EXCEPT ![r] =
                                  IF cacheToken = gtok[r] THEN "same"
                                                          ELSE "differ"]
                   /\ gpc' = [gpc EXCEPT ![r] = "done"]
                   /\ gres' = [gres EXCEPT ![r] =
                                 IF HitAdmits(cacheToken, gtok[r])
                                   THEN "admit" ELSE "reject"]
    /\ UNCHANGED <<ghdr, gtok, gdb, gset, gclean, gactive>>
    /\ UNCHANGED varsAcct
    /\ UNCHANGED varsNotAuth

\* err != nil || accountInfo.Token == "" || accountInfo.Token != tokenString
RowRejects(err, row, tok) == err \/ row = NoToken \/ row # tok

\* accountRepo.FindByID
GateFind(r) ==
    /\ Settled
    /\ gpc[r] = "find"
    /\ \E err \in BOOLEAN :
         /\ gdb' = [gdb EXCEPT ![r] =
                       IF dbToken = gtok[r]
                         THEN (IF err THEN "errMatch" ELSE "match")
                         ELSE (IF err THEN "errNoMatch" ELSE "noMatch")]
         /\ IF RowRejects(err, dbToken, gtok[r])
              THEN /\ gpc' = [gpc EXCEPT ![r] = "done"]
                   /\ gres' = [gres EXCEPT ![r] = "reject"]
              ELSE /\ gpc' = [gpc EXCEPT ![r] = "set"]
                   /\ UNCHANGED gres
    /\ UNCHANGED <<ghdr, gtok, gpath, gset, gclean, gactive>>
    /\ UNCHANGED varsAcct
    /\ UNCHANGED varsNotAuth

\* cache.SetBytes(key, token, 24h): an error leaves the entry as it was
SetBytesNever(cur, tok, err) == cur
SetBytes(cur, tok, err) == IF err THEN cur ELSE tok

\* the gate populates the cache (a failure is logged) and admits
GateSet(r) ==
    /\ Settled
    /\ gpc[r] = "set"
    /\ \E err \in BOOLEAN :
         /\ cacheToken' = SetBytes(cacheToken, gtok[r], err)
         /\ gset' = [gset EXCEPT ![r] = IF err THEN "err" ELSE "ok"]
    /\ gpc' = [gpc EXCEPT ![r] = "done"]
    /\ gres' = [gres EXCEPT ![r] = "admit"]
    /\ UNCHANGED <<ghdr, gtok, gpath, gdb, gclean, gactive>>
    /\ UNCHANGED <<dbToken, issued, apc, atok, active, lastOut>>
    /\ UNCHANGED varsNotAuth

\* the entry's time to live of 24h runs out
AccountCacheExpire ==
    /\ Settled
    /\ cacheToken # NoToken
    /\ cacheToken' = NoToken
    /\ UNCHANGED <<dbToken, issued, apc, atok, active, lastOut>>
    /\ UNCHANGED varsGate
    /\ UNCHANGED varsNotAuth

\* ------------------------------------------------- AccountService ----
\* requests in the gate while a session operation runs are not "later" ones
InGate(r) == gpc[r] \notin {"idle", "done"}
Overlapped == [r \in Gates |-> IF InGate(r) THEN FALSE ELSE gclean[r]]
OverlappedActive == [r \in Gates |-> IF InGate(r) THEN NoToken ELSE gactive[r]]

\* Login / Rename: GenerateToken, then accountRepository.Login /
\* RenameWithToken stores the new token in the row
IssueToken ==
    /\ Settled
    /\ apc = "idle"
    /\ issued < MaxTokens
    /\ issued' = issued + 1
    /\ dbToken' = issued + 1
    /\ atok' = issued + 1
    /\ apc' = "set"
    /\ gclean' = Overlapped
    /\ gactive' = OverlappedActive
    /\ UNCHANGED <<cacheToken, active, lastOut>>
    /\ UNCHANGED <<gpc, ghdr, gtok, gres, gpath, gdb, gset>>
    /\ UNCHANGED varsNotAuth

\* Login / Rename: cache SetBytes (a failure is logged), return token
IssueSet ==
    /\ Settled
    /\ apc = "set"
    /\ \E err \in BOOLEAN : cacheToken' = SetBytes(cacheToken, atok, err)
    /\ apc' = "idle"
    /\ active' = atok
    /\ atok' = NoToken
    /\ UNCHANGED <<dbToken, issued, lastOut>>
    /\ UNCHANGED varsGate
    /\ UNCHANGED varsNotAuth

\* cache.Del of account:{id}: a failure is logged and the entry stays
LogoutDel(cur, err) == IF err THEN cur ELSE NoToken

\* Logout (ChangePassword calls it after storing the password): FindByID;
\* with an empty token it returns nil, otherwise it deletes the cache entry.
\* (Session operations run one at a time, so the row read here is the row
\* at the time of the Del.)
LogoutFind ==
    /\ Settled
    /\ apc = "idle"
    /\ gclean' = Overlapped
    /\ gactive' = OverlappedActive
    /\ IF dbToken = NoToken
         THEN /\ apc' = "idle"
              /\ active' = NoToken
              /\ lastOut' = IF active # NoToken THEN active ELSE lastOut
              /\ UNCHANGED cacheToken
         ELSE /\ apc' = "clear"
              /\ \E err \in BOOLEAN : cacheToken' = LogoutDel(cacheToken, err)
              /\ UNCHANGED <<active, lastOut>>
    /\ UNCHANGED <<dbToken, issued, atok>>
    /\ UNCHANGED <<gpc, ghdr, gtok, gres, gpath, gdb, gset>>
    /\ UNCHANGED varsNotAuth

\* Logout: accountRepository.Logout sets the row's token to ""; its error is
\* the result of Logout
LogoutClear ==
    /\ Settled
    /\ apc = "clear"
    /\ \E err \in BOOLEAN :
         IF err THEN UNCHANGED <<dbToken, active, lastOut>>
         ELSE /\ dbToken' = NoToken
              /\ active' = NoToken
              /\ lastOut' = IF active # NoToken THEN active ELSE lastOut
    /\ apc' = "idle"
    /\ UNCHANGED <<cacheToken, issued, atok>>
    /\ UNCHANGED varsGate
    /\ UNCHANGED varsNotAuth

InitAuth ==
    /\ dbToken = NoToken
    /\ cacheToken = NoToken
    /\ issued = 0
    /\ apc = "idle"
    /\ atok = NoToken
    /\ active = NoToken
    /\ lastOut = NoToken
    /\ gpc = [r \in Gates |-> "idle"]
    /\ ghdr = [r \in Gates |-> "none"]
    /\ gtok = [r \in Gates |-> NoToken]
    /\ gres = [r \in Gates |-> "none"]
    /\ gpath = [r \in Gates |-> "none"]
    /\ gdb = [r \in Gates |-> "none"]
    /\ gset = [r \in Gates |-> "none"]
    /\ gclean = [r \in Gates |-> TRUE]
    /\ gactive = [r \in Gates |-> NoToken]

NextAuth ==
    \/ \E r \in Gates, hdr \in {"absent", "malformed", "invalid"} :
          SoftJWTAuth(r, hdr)
    \/ \E r \in Gates, tok \in 1..MaxTokens : GateStart(r, tok)
    \/ \E r \in Gates : GateGet(r)
    \/ \E r \in Gates : GateFind(r)
    \/ \E r \in Gates : GateSet(r)
    \/ \E r \in Gates : GateReturn(r)
    \/ AccountCacheExpire
    \/ IssueToken
    \/ IssueSet
    \/ LogoutFind
    \/ LogoutClear

\* ======================================================================
\* Part VI  - feed response cache: keys and per-viewer like state
\* ======================================================================
\* The page of every feed holds one video; a response is its is_liked field.
\* builtFor is history: the viewer buildFeedVideos was called for.
Viewers == {0} \cup Accounts          \* viewerAccountID; 0 is anonymous
NoKey == <<>>                         \* cacheKey == ""
NoResp == [isLiked |-> FALSE, builtFor |-> 0 - 1]

\* cacheKey of each feed (one limit, one cursor)
ListLatestKeyAnyViewer(viewer) == <<"feed:listLatest">>
ListLatestKey(viewer) ==
    IF viewer = 0 THEN <<"feed:listLatest">> ELSE NoKey
ListByFollowingKey(viewer) ==
    IF viewer # 0 THEN <<"feed:listByFollowing", viewer>> ELSE NoKey
ListLikesCountKey(viewer) == NoKey
FeedKeys ==
    {<<"feed:listLatest">>} \cup {<<"feed:listByFollowing", a>> : a \in Accounts}
FeedOps == {"listLatest", "listByFollowing", "listLikesCount"}
FeedKey(op, viewer) ==
    IF op = "listLatest" THEN ListLatestKey(viewer)
    ELSE IF op = "listByFollowing" THEN ListByFollowingKey(viewer)
    ELSE ListLikesCountKey(viewer)

\* LikeRepository.BatchGetLiked: empty for accountID == 0, else the rows of
\* the account
BatchGetLiked(rows, accountID) == accountID # 0 /\ accountID \in rows

\* FeedService.buildFeedVideos
buildFeedVideos(rows, viewer) ==
    [isLiked |-> BatchGetLiked(rows, viewer), builtFor |-> viewer]

NoLast == [op |-> "none", viewer |-> 0, src |-> "none", isLiked |-> FALSE,
           builtFor |-> 0 - 1]
Last(op, viewer, src, resp) ==
    [op |-> op, viewer |-> viewer, src |-> src, isLiked |-> resp.isLiked,
     builtFor |-> resp.builtFor]

\* the cached response is returned as it was deserialized
ServeCached(cached, rows, viewer) == cached

\* ListLatest / ListByFollowing / ListLikesCount: with a cacheKey, a hit
\* returns the cached response; otherwise the response is built from the
\* database and, with a cacheKey, written to the cache (errors ignored).
\* /feed/listByFollowing is behind JWTAuth: its viewer is an account.
FeedRequest(op, viewer) ==
    /\ op = "listByFollowing" => viewer # 0
    /\ LET key == FeedKey(op, viewer)
           fresh == buildFeedVideos(vlikes, viewer)
       IN  IF key = NoKey
             THEN \E dberr \in BOOLEAN :
                    /\ rlast' = IF dberr THEN Last(op, viewer, "err", NoResp)
                                ELSE Last(op, viewer, "db", fresh)
                    /\ UNCHANGED rcache
             ELSE \E geterr \in BOOLEAN, dberr \in BOOLEAN, seterr \in BOOLEAN :
                    IF ~geterr /\ rcache[key] # NoResp
                      THEN /\ rlast' = Last(op, viewer, "cache",
                                            ServeCached(rcache[key], vlikes, viewer))
                           /\ UNCHANGED rcache
                      ELSE IF dberr
                        THEN /\ rlast' = Last(op, viewer, "err", NoResp)
                             /\ UNCHANGED rcache
                        ELSE /\ rlast' = Last(op, viewer, "db", fresh)
                             /\ rcache' = IF seterr THEN rcache
                                          ELSE [rcache EXCEPT ![key] = fresh]
    /\ UNCHANGED vlikes
    /\ UNCHANGED varsNotScope

\* a Like row of the video is inserted or deleted (LikeService, LikeWorker)
LikeRowChange(a) ==
    /\ vlikes' = IF a \in vlikes THEN vlikes \ {a} ELSE vlikes \cup {a}
    /\ UNCHANGED <<rcache, rlast>>
    /\ UNCHANGED varsNotScope

\* the entry's time to live (cacheTTL, 5s) runs out
FeedCacheExpire(k) ==
    /\ rcache[k] # NoResp
    /\ rcache' = [rcache EXCEPT ![k] = NoResp]
    /\ UNCHANGED <<vlikes, rlast>>
    /\ UNCHANGED varsNotScope

InitScope ==
    /\ vlikes = {}
    /\ rcache = [k \in FeedKeys |-> NoResp]
    /\ rlast = NoLast

NextScope ==
    \/ \E op \in FeedOps, viewer \in Viewers : FeedRequest(op, viewer)
    \/ \E a \in Accounts : LikeRowChange(a)
    \/ \E k \in FeedKeys : FeedCacheExpire(k)

\* ======================================================================
\* Part VII  - the hot ranking
\* ======================================================================
\* the minutes at which the clock is read: two neighbours and the last
\* minute whose window holds the second of them (and not the first)
Clock == <<1, 2, win + 1>>
Minutes == {Clock[i] : i \in DOMAIN Clock}

\* asOf.Unix() of a minute and time.Unix(reqAsOf, 0).Truncate(time.Minute)
Unix(t) == t * 60
Truncate(sec) == sec \div 60

\* a sorted set: its members and their scores (0 where there is no member);
\* a key with no member does not exist
EmptyZ == [has |-> {}, score |-> [m \in Members |-> 0]]

\* ZINCRBY key change member
ZIncrBy(z, m, change) ==
    [has |-> z.has \cup {m}, score |-> [z.score EXCEPT ![m] = @ + change]]

\* keys[i] = "hot:video:1m:" + asOf.Add(-i * time.Minute) for i = 0 .. win-1
KeysShort(asOf) == [i \in 1..(win - 1) |-> asOf - (i - 1)]
Keys(asOf) == [i \in 1..win |-> asOf - (i - 1)]

\* the sorted set under the key of minute t
Bucket(b, t) == IF t \in Minutes THEN b[t] ELSE EmptyZ

\* the sum of the scores of m in the sorted sets of the first n keys
RECURSIVE SumScores(_, _, _, _)
SumScores(b, keys, n, m) ==
    IF n = 0 THEN 0
    ELSE Bucket(b, keys[n]).score[m] + SumScores(b, keys, n - 1, m)

\* ZUNIONSTORE dest keys AGGREGATE SUM
ZUnionStore(b, keys) ==
    [has |-> UNION {Bucket(b, keys[i]).has : i \in 1..Len(keys)},
     score |-> [m \in Members |-> SumScores(b, keys, Len(keys), m)]]

\* ZREVRANGE dest start stop (start >= 0)
HotRange(z, start, stop) ==
    LET all == ZRevRange(z.score, z.has)
    IN  IF start >= Len(all) THEN <<>>
        ELSE SubSeq(all, start + 1, Min(stop + 1, Len(all)))

\* GetByIDs and the reordering by the ids: the loaded rows in the order of
\* the members, a member without a row left out
Ordered(t, ids) ==
    LET found == SelectSeq(ids, LAMBDA id : \E v \in t : v.id = id)
    IN  [i \in 1..Len(found) |-> CHOOSE v \in t : v.id = found[i]]

\* the cursor triple of a response: the last row's
NextTriple(rows) ==
    IF Len(rows) > 0
      THEN PopularityReq(rows[Len(rows)].pop, rows[Len(rows)].ctime,
                         rows[Len(rows)].id)
      ELSE NoPopularityReq

\* FeedService.ListByPopularity, steps 5 to 9 and the database fallback:
\* members is what ZREVRANGE returned
HotRespond(t, stored, asOf, members, limit, offset, c, up) ==
    LET ordered == Ordered(t, members)
        db == ListByPopularityDB(t, limit, c)
    IN  IF up /\ members = <<>> /\ offset > 0
          THEN [snaps |-> stored,
                resp |-> [src |-> "cache", list |-> <<>>, asOf |-> Unix(asOf),
                          nextOffset |-> offset, hasMore |-> FALSE,
                          next |-> NoPopularityReq]]
        ELSE IF up /\ members # <<>>
          THEN [snaps |-> stored,
                resp |-> [src |-> "cache", list |-> ordered,
                          asOf |-> Unix(asOf),
                          nextOffset |-> offset + Len(ordered),
                          hasMore |-> Len(ordered) = limit,
                          next |-> NextTriple(ordered)]]
        ELSE [snaps |-> stored,
              resp |-> [src |-> "db", list |-> db.list, asOf |-> 0,
                        nextOffset |-> 0, hasMore |-> db.hasMore,
                        next |-> db.next]]

\* step 4: dest is the snapshot of asOf after step 3
HotPage(t, snaps, asOf, dest, limit, offset, c, up) ==
    HotRespond(t, IF up THEN [snaps EXCEPT ![asOf] = dest] ELSE snaps, asOf,
               HotRange(dest, offset, offset + limit - 1), limit, offset, c,
               up)

\* steps 2 and 3: the snapshot that exists, or else the union of the
\* window of asOf
HotSnapshot(t, b, snaps, asOf, limit, offset, c, up) ==
    HotPage(t, snaps, asOf,
            IF snaps[asOf].has # {} THEN snaps[asOf]
                                    ELSE ZUnionStore(b, Keys(asOf)),
            limit, offset, c, up)

\* FeedService.ListByPopularity with a cache client. up: the cache answers
\* the calls of this request. The result is the response and the snapshots.
ListByPopularity(t, b, snaps, now, limit, reqAsOf, offset, c, up) ==
    HotSnapshot(t, b, snaps, IF reqAsOf > 0 THEN Truncate(reqAsOf) ELSE now,
                limit, offset, c, up)

\* the fields of a first request
FirstHotReq == [asOf |-> 0, offset |-> 0, cur |-> NoPopularityReq]

\* the client sends the fields of the last response (FeedHandler.
\* ListByPopularity checks the triple) and keeps the page; the cache is
\* reachable or not, as ups allows
HotRequest(ups) ==
    /\ hstate = "paging"
    /\ Len(hpages) < MaxPages
    /\ \E up \in ups :
         \E c \in {PopularityCursor(hreq.cur)} :
         \E r \in {ListByPopularity(htable, hbucket, hsnap, Clock[hnow],
                                    PageLimit(hlimit), hreq.asOf, hreq.offset,
                                    c, up)} :
             IF c.status = "bad"
               THEN /\ hstate' = "rejected"
                    /\ UNCHANGED <<hsnap, hreq, hpages>>
               ELSE /\ hsnap' = r.snaps
                    /\ hpages' = Append(hpages,
                                        [src |-> r.resp.src,
                                         ids |-> IDs(r.resp.list),
                                         asOf |-> r.resp.asOf,
                                         offset |-> hreq.offset])
                    /\ hreq' = [asOf |-> r.resp.asOf,
                                offset |-> r.resp.nextOffset,
                                cur |-> r.resp.next]
                    /\ hstate' = IF r.resp.hasMore THEN "paging" ELSE "done"
    /\ UNCHANGED <<hnow, hbucket, hwrites, htable, hlimit>>
    /\ UNCHANGED varsNotHot

\* UpdatePopularityCache(id, change) in the current minute
HotWrite(m, change) ==
    /\ hwrites < MaxWrites
    /\ hwrites' = hwrites + 1
    /\ hbucket' = [hbucket EXCEPT ![Clock[hnow]] = ZIncrBy(@, m, change)]
    /\ UNCHANGED <<hnow, htable, hsnap, hlimit, hreq, hpages, hstate>>
    /\ UNCHANGED varsNotHot

\* the clock moves on
HotTick ==
    /\ hnow < Len(Clock)
    /\ hnow' = hnow + 1
    /\ UNCHANGED <<hbucket, hwrites, htable, hsnap, hlimit, hreq, hpages,
                   hstate>>
    /\ UNCHANGED varsNotHot

\* the videos table: a member's row may be gone (VideoService.Delete);
\* the rows were inserted in the same second
HotTables(pops) ==
    UNION {{{Row(i, 0, f[i], 1) : i \in S} : f \in [S -> pops]} :
           S \in SUBSET Members}

\* a client starts to page, with a limit that one page or several satisfy
HotClient(tables) ==
    /\ hnow = 1
    /\ hbucket = [t \in Minutes |-> EmptyZ]
    /\ hwrites = 0
    /\ htable \in tables
    /\ hsnap = [t \in Minutes |-> EmptyZ]
    /\ hlimit \in 1..NumMembers
    /\ hreq = FirstHotReq
    /\ hpages = <<>>
    /\ hstate = "paging"

\* rows of equal popularity
InitHot == HotClient(HotTables({0}))

\* rows of every popularity
InitHandoff == HotClient(HotTables(0..MaxScore))

\* no client of the hot ranking, no bucket
InitNoHot ==
    /\ hnow = 1
    /\ hbucket = <<>>
    /\ hwrites = 0
    /\ htable = {}
    /\ hsnap = <<>>
    /\ hlimit = 1
    /\ hreq = FirstHotReq
    /\ hpages = <<>>
    /\ hstate = "done"

\* the cache answers every request
NextHot ==
    \/ HotRequest({TRUE})
    \/ \E m \in Members, change \in {1, 0 - 1} : HotWrite(m, change)
    \/ HotTick

\* the cache comes and goes between the requests
NextHandoff ==
    \/ HotRequest(BOOLEAN)
    \/ \E m \in Members, change \in {1, 0 - 1} : HotWrite(m, change)
    \/ HotTick

\* ======================================================================
\* Part VIII  - the worker process
\* ======================================================================
Workers == {"social", "like", "comment", "popularity"}

\* ch, err := conn.Channel(): main opens one channel
OpenChannel ==
    /\ ch = 0
    /\ ch' = 1
    /\ UNCHANGED consumers
    /\ UNCHANGED varsNotWire

\* NewSocialWorker(ch, ...), NewLikeWorker(ch, ...), NewCommentWorker(ch, ...),
\* NewPopularityWorker(ch, ...) and go func() { errCh <- w.Run(ctx) }(): Run
\* calls w.ch.Consume on the channel the constructor was given
Run(w) ==
    /\ ch # 0
    /\ consumers[w] = 0
    /\ consumers' = [consumers EXCEPT ![w] = ch]
    /\ UNCHANGED ch
    /\ UNCHANGED varsNotWire

\* a started worker takes the deliveries of its queue
Consume ==
    \/ consumers["like"] # 0 /\ LikeWorkerDeliver
    \/ consumers["social"] # 0 /\ SocialWorkerDeliver
    \/ consumers["comment"] # 0 /\ CommentWorkerDeliver

InitWire ==
    /\ ch = 0
    /\ consumers = [w \in Workers |-> 0]

NextWire ==
    \/ OpenChannel
    \/ \E w \in Workers : Run(w)
    \/ Consume

\* ======================================================================
\* Part IX  - the video detail cache
\* ======================================================================
\* VideoService.GetDetail, getCached: a hit is returned; a miss (or an
\* error of the read) leads to the query of the row, under the lease of the
\* key or, when the lease was not obtained, after the polls
DetailGet(c) ==
    /\ dpc[c] = "idle"
    /\ IF vcache # <<>>
         THEN /\ dval' = [dval EXCEPT ![c] = vcache]
              /\ UNCHANGED dpc
         ELSE /\ dpc' = [dpc EXCEPT ![c] = "miss"]
              /\ dval' = [dval EXCEPT ![c] = <<>>]
    /\ UNCHANGED <<vrow, vcache, dpend>>
    /\ UNCHANGED varsNotDetail

\* vs.repo.GetByID: a missing row is an error and GetDetail returns it
DetailQuery(c) ==
    /\ dpc[c] = "miss"
    /\ dval' = [dval EXCEPT ![c] = vrow]
    /\ dpc' = [dpc EXCEPT ![c] = IF vrow = <<>> THEN "idle" ELSE "read"]
    /\ UNCHANGED <<vrow, vcache, dpend>>
    /\ UNCHANGED varsNotDetail

\* setCached(video): SetBytes with the TTL, its error discarded
DetailSet(c) ==
    /\ dpc[c] = "read"
    /\ \E written \in BOOLEAN :
         vcache' = IF written THEN dval[c] ELSE vcache
    /\ dpc' = [dpc EXCEPT ![c] = "idle"]
    /\ UNCHANGED <<vrow, dval, dpend>>
    /\ UNCHANGED varsNotDetail

\* a like, unlike or comment on the video: the update of the counters of the
\* row and UpdatePopularityCache are both still to be made
CounterChange ==
    /\ dpend = {}
    /\ vrow # <<>> /\ vrow[1] < MaxChanges
    /\ dpend' = {"db", "del"}
    /\ UNCHANGED <<vrow, vcache, dpc, dval>>
    /\ UNCHANGED varsNotDetail

\* ChangeLikesCount / ChangePopularity: the row has new counters
ChangeRow ==
    /\ "db" \in dpend
    /\ vrow' = <<vrow[1] + 1>>
    /\ dpend' = dpend \ {"db"}
    /\ UNCHANGED <<vcache, dpc, dval>>
    /\ UNCHANGED varsNotDetail

\* UpdatePopularityCache, VideoService.Delete: cache.Del of the detail key
DelDetail ==
    /\ "del" \in dpend
    /\ vcache' = <<>>
    /\ dpend' = dpend \ {"del"}
    /\ UNCHANGED <<vrow, dpc, dval>>
    /\ UNCHANGED varsNotDetail

\* VideoService.Delete: DeleteVideo; the Del of the key follows
VideoDelete ==
    /\ dpend = {}
    /\ vrow # <<>>
    /\ vrow' = <<>>
    /\ dpend' = {"del"}
    /\ UNCHANGED <<vcache, dpc, dval>>
    /\ UNCHANGED varsNotDetail

\* the TTL of the detail key runs out
DetailExpire ==
    /\ vcache # <<>>
    /\ vcache' = <<>>
    /\ UNCHANGED <<vrow, dpc, dval, dpend>>
    /\ UNCHANGED varsNotDetail

InitDetail ==
    /\ vrow = <<0>>
    /\ vcache = <<>>
    /\ dpc = [c \in Callers |-> "idle"]
    /\ dval = [c \in Callers |-> <<>>]
    /\ dpend = {}

NextDetail ==
    \/ \E c \in Callers : DetailGet(c) \/ DetailQuery(c) \/ DetailSet(c)
    \/ CounterChange
    \/ ChangeRow
    \/ DelDetail
    \/ VideoDelete
    \/ DetailExpire

\* no client is paging
InitNoPages ==
    /\ ptable = {}
    /\ plimit = 1
    /\ preq = NoLikesReq
    /\ pseen = <<>>
    /\ pstate = "done"

\* nothing but the part under study moves
InitMore == InitWire /\ InitDetail
InitQuiet == InitSnap /\ InitAuth /\ InitScope /\ InitNoHot /\ InitMore
InitIdle == InitNoPages /\ InitQuiet

\* ---------------------------------------------------- specifications ----
InitBus ==
    /\ likeQ = <<>> /\ popularityQ = <<>> /\ commentQ = <<>> /\ socialQ = <<>>

InitWrite ==
    /\ SetDBInit(EmptyDB)
    /\ hot = [v \in Videos |-> 0]
    /\ InitBus
    /\ call = Idle
    /\ ev = NoEv
    /\ deliveries = 0
    /\ deleteCall = NoCall
    /\ unfollowed = {}
    /\ first = NoFirst

\* tables a like / unlike message can meet: any rows, any counters in range
LikeTables ==
    {[EmptyDB EXCEPT !.likes = l, !.likesCount = lc, !.popularity = p] :
        l \in SUBSET (Videos \X Accounts),
        lc \in [Videos -> 0..MaxCount],
        p \in [Videos -> 0..MaxCount]}

\* tables a follow / unfollow message can meet
Edges == {e \in Accounts \X Accounts : e[1] # e[2]}
SocialTables ==
    {[EmptyDB EXCEPT !.follows = [p \in Pairs |-> IF p \in f THEN 1 ELSE 0]] :
        f \in SUBSET Edges}

\* tables a comment delete message can meet: each id present or deleted
CommentTables ==
    {[EmptyDB EXCEPT
        !.comments = {[id |-> i, video |-> CHOOSE v \in Videos : TRUE,
                         author |-> au[i]] :
                         i \in {j \in 1..MaxComments : au[j] # 0}},
        !.nextCommentID = MaxComments + 1] :
     au \in [1..MaxComments -> {0} \cup Accounts]}

\* PopularityWorker.handleDelivery, the bucket write succeeding
ReplayPopularity ==
    /\ popularityQ # <<>> /\ deliveries < MaxDeliver
    /\ \E ack \in Acks :
         LET evt == Head(popularityQ) IN
         /\ hot' = UpdatePopularityCache(hot, evt.video, evt.change, FALSE)
         /\ popularityQ' = Settle(popularityQ, FALSE, ack)
         /\ ev' = WorkerEv("popularity", ack, "applied", FALSE)
    /\ deliveries' = deliveries + 1
    /\ UNCHANGED <<first, deleteCall, unfollowed>>
    /\ UNCHANGED <<varsDB, likeQ, commentQ, socialQ, call>>
    /\ UNCHANGED <<varsFeed, varsRest>>

\* one comment publish message, or one popularity message, waits in its queue
InitRedeliver ==
    /\ hot = [v \in Videos |-> 0]
    /\ call = Idle
    /\ ev = NoEv
    /\ deliveries = 0
    /\ deleteCall = NoCall
    /\ unfollowed = {}
    /\ first = NoFirst
    /\ likeQ = <<>> /\ socialQ = <<>>
    /\ \/ /\ \E d \in CommentTables : SetDBInit(d)
          /\ \E v \in Videos, a \in Accounts :
               commentQ = <<CommentEvent("publish", v, a, 0)>>
          /\ popularityQ = <<>>
       \/ /\ \E d \in CommentTables : SetDBInit(d)
          /\ \E v \in Videos, change \in {-1, 1} :
               popularityQ = <<PopularityEvent(v, change)>>
          /\ commentQ = <<>>

NextRedeliver == ReplayComment \/ ReplayPopularity

InitReplay ==
    /\ hot = [v \in Videos |-> 0]
    /\ popularityQ = <<>>
    /\ call = Idle
    /\ ev = NoEv
    /\ deliveries = 0
    /\ deleteCall = NoCall
    /\ unfollowed = {}
    /\ first = NoFirst
    /\ \/ /\ \E d \in LikeTables : SetDBInit(d)
          /\ \E action \in {"like", "unlike"}, a \in Accounts, v \in Videos :
               likeQ = <<LikeEvent(action, a, v)>>
          /\ socialQ = <<>> /\ commentQ = <<>>
       \/ /\ \E d \in SocialTables : SetDBInit(d)
          /\ \E action \in {"follow", "unfollow"}, e \in Edges :
               socialQ = <<SocialEvent(action, e[1], e[2])>>
          /\ likeQ = <<>> /\ commentQ = <<>>
       \/ /\ \E d \in CommentTables : SetDBInit(d)
          /\ \E id \in 1..MaxComments :
               commentQ = <<CommentEvent("delete", 0, 0, id)>>
          /\ likeQ = <<>> /\ socialQ = <<>>

\* bodies a consumer can be handed: whatever was published to its queue
OtherVideo == Cardinality(Videos) + 1     \* a video_id without a row
LikeBodies ==
    {Malformed} \cup
    {LikeEvent(action, a, v) : action \in {"like", "unlike", "other"},
                               a \in {0} \cup Accounts,
                               v \in VideoIDs \cup {OtherVideo}}
SocialBodies ==
    {Malformed} \cup
    {SocialEvent(action, f, g) : action \in {"follow", "unfollow", "other"},
                                 f \in {0} \cup Accounts,
                                 g \in {0} \cup Accounts}
CommentBodies ==
    {Malformed} \cup
    {CommentEvent(action, v, a, id) :
        action \in {"publish", "delete", "other"},
        v \in VideoIDs \cup {OtherVideo}, a \in {0} \cup Accounts,
        id \in CommentIDs}

\* one body waits in one queue, over any tables
InitDeliver ==
    /\ hot = [v \in Videos |-> 0]
    /\ popularityQ = <<>>
    /\ call = Idle
    /\ ev = NoEv
    /\ deliveries = 0
    /\ deleteCall = NoCall
    /\ unfollowed = {}
    /\ first = NoFirst
    /\ \/ /\ \E d \in LikeTables : SetDBInit(d)
          /\ \E b \in LikeBodies : likeQ = <<b>>
          /\ socialQ = <<>> /\ commentQ = <<>>
       \/ /\ \E d \in SocialTables : SetDBInit(d)
          /\ \E b \in SocialBodies : socialQ = <<b>>
          /\ likeQ = <<>> /\ commentQ = <<>>
       \/ /\ \E d \in CommentTables \cup {EmptyDB} : SetDBInit(d)
          /\ \E b \in CommentBodies : commentQ = <<b>>
          /\ likeQ = <<>> /\ socialQ = <<>>

\* a like and then an unlike of one pair without a row wait in the queue;
\* first.db keeps the tables they were issued on
InitBalanced ==
    /\ hot = [v \in Videos |-> 0]
    /\ popularityQ = <<>> /\ socialQ = <<>> /\ commentQ = <<>>
    /\ call = Idle
    /\ ev = NoEv
    /\ deliveries = 0
    /\ deleteCall = NoCall
    /\ unfollowed = {}
    /\ \E d \in LikeTables, a \in Accounts, v \in Videos :
         /\ ~IsLiked(d, v, a)
         /\ SetDBInit(d)
         /\ first = [changed |-> FALSE, db |-> d]
         /\ likeQ = <<LikeEvent("like", a, v), LikeEvent("unlike", a, v)>>

\* comments of several authors exist; no message is queued
InitComments ==
    /\ hot = [v \in Videos |-> 0]
    /\ InitBus
    /\ call = Idle
    /\ ev = NoEv
    /\ deliveries = 0
    /\ deleteCall = NoCall
    /\ unfollowed = {}
    /\ first = NoFirst
    /\ \E d \in CommentTables : SetDBInit(d)

NextCommentDelete ==
    \/ \E a \in Accounts, id \in CommentIDs : CommentDelete(a, id)
    \/ CommentWorkerDeliver

NextDeliver ==
    \/ LikeWorkerDeliver
    \/ SocialWorkerDeliver
    \/ CommentWorkerDeliver

NextLike ==
    \/ \E a \in Likers, v \in VideoIDs : LikeValidate(a, v)
    \/ Like
    \/ \E a \in Likers, v \in VideoIDs : UnlikeValidate(a, v)
    \/ Unlike
    \/ LikeWorkerDeliver
    \/ PopularityWorkerDeliver

NextComment ==
    \/ \E a \in Accounts, v \in VideoIDs, content \in Contents :
         CommentPublish(a, v, content)
    \/ \E a \in Accounts, id \in CommentIDs : CommentDelete(a, id)
    \/ CommentWorkerDeliver
    \/ PopularityWorkerDeliver
    \/ \E v \in Videos, change \in {-1, 1} :
         VideoServiceUpdatePopularity(v, change)

NextSocial ==
    \/ \E f \in Accounts, g \in VloggerIDs : Follow(f, g)
    \/ \E f \in Accounts, g \in VloggerIDs : Unfollow(f, g)
    \/ SocialWorkerDeliver

NextReplay == ReplayLike \/ ReplaySocial \/ ReplayComment

Next == NextFeed \/ NextLike \/ NextComment \/ NextSocial

vars == <<varsFeed, varsWrite, varsRest>>

Init == InitFeed /\ InitWrite /\ InitIdle

Spec == Init /\ [][Next]_vars

\* the read path alone
SpecFeed == Init /\ [][NextFeed]_vars

\* goroutines are scheduled and every cache / database call returns (each is
\* bounded by a deadline), so a started request keeps taking its steps.
FairSpecFeed == SpecFeed /\ \A c \in Callers : WF_vars(CallerStep(c))

\* likes and unlikes with the like and popularity workers
SpecLike == Init /\ [][NextLike]_vars

\* comments and popularity updates with the comment and popularity workers
SpecComment == Init /\ [][NextComment]_vars

\* follows and unfollows with the social worker
SpecSocial == Init /\ [][NextSocial]_vars

\* redelivery of one message to its worker
InitReplayAll == InitFeed /\ InitReplay /\ InitIdle
SpecReplay == InitReplayAll /\ [][NextReplay]_vars

\* one comment publish or popularity message delivered again and again
InitRedeliverAll == InitFeed /\ InitRedeliver /\ InitIdle
SpecRedeliver == InitRedeliverAll /\ [][NextRedeliver]_vars

\* the like worker on a balanced sequence of one pair
InitBalancedAll == InitFeed /\ InitBalanced /\ InitIdle
SpecBalanced == InitBalancedAll /\ [][LikeWorkerDeliver]_vars

\* Delete calls on existing comments, with the comment worker
InitCommentsAll == InitFeed /\ InitComments /\ InitIdle
SpecCommentDelete == InitCommentsAll /\ [][NextCommentDelete]_vars

\* the three table workers, each handed one body
InitDeliverAll == InitFeed /\ InitDeliver /\ InitIdle
SpecDeliver == InitDeliverAll /\ [][NextDeliver]_vars

\* a client pages through the likes ranking of a fixed table
InitLikesPagesAll == InitFeed /\ InitWrite /\ InitLikesPages /\ InitQuiet
SpecLikesPages == InitLikesPagesAll /\ [][LikesPage]_vars

\* concurrent ListByPopularity calls for one asOf, offset 0, with bucket writes
SpecSnapshot == Init /\ [][NextSnap]_vars

\* the auth gate with the session operations of one account
SpecAuth == Init /\ [][NextAuth]_vars

\* feed requests of several viewers with changes of their Like rows
SpecScope == Init /\ [][NextScope]_vars

\* the hot ranking and its client, for every table of rows and every limit
InitHotAll ==
    /\ InitFeed /\ InitWrite /\ InitNoPages
    /\ InitSnap /\ InitAuth /\ InitScope /\ InitHot /\ InitMore
SpecHot == InitHotAll /\ [][NextHot]_vars

InitHandoffAll ==
    /\ InitFeed /\ InitWrite /\ InitNoPages
    /\ InitSnap /\ InitAuth /\ InitScope /\ InitHandoff /\ InitMore
SpecHandoff == InitHandoffAll /\ [][NextHandoff]_vars

\* the worker process starts its consumers over one waiting message
SpecWire == InitDeliverAll /\ [][NextWire]_vars

\* GetDetail calls with counter changes and the Delete of the video
SpecDetail == Init /\ [][NextDetail]_vars

\* a client pages through Latest or Following over a fixed table
InitLatestPagesAll == InitFeed /\ InitWrite /\ InitLatestPages /\ InitQuiet
SpecLatestPages == InitLatestPagesAll /\ [][LatestPage]_vars

\* a client pages through the popularity ranking of a fixed table, no cache
InitPopularityPagesAll == InitFeed /\ InitWrite /\ InitPopularityPages /\ InitQuiet
SpecPopularityPages == InitPopularityPagesAll /\ [][PopularityPage]_vars

\* ----------------------------------------------------------------------
\* Claims on Part I
\* ----------------------------------------------------------------------

C2_LeaseSafety ==
    [][\A c \in Callers :
          (fpc[c] = "unlock" /\ fpc'[c] = "done") =>
              /\ (lock # ftoken[c] => lock' = lock)
              /\ (lock' # lock => lock' = NoLock)]_vars

\* a stale Unlock has run and the lease of the later holder is still stored
C2_Witness ==
    /\ staleUnlock
    /\ \E c \in Callers : fpc[c] \in {"recheck", "hquery", "hset", "unlock"}
                          /\ lock = ftoken[c]

\* C3: every started request returns unless its own process dies, also when
\* the lease winner died without writing the cache entry; a contender polls at
\* most five times.
C3_Progress ==
    /\ [](\A c \in Callers : polls[c] <= MaxPolls)
    /\ \A c \in Callers : (fpc[c] # "idle") ~> (fpc[c] \in {"done", "crashed"})

\* the winner died holding the lease, the cache entry was never written, and a
\* contender returned the result of its own source query
C3_Witness ==
    \E c1, c2 \in Callers :
        /\ fpc[c1] = "crashed" /\ lock = ftoken[c1] /\ ~cache
        /\ fpc[c2] = "done" /\ fres[c2] = "fresh"

\* ----------------------------------------------------------------------
\* Claims on Part II
\* ----------------------------------------------------------------------
Returned(ops) == ev.kind = "api" /\ ev.op \in ops /\ ev.res = "ok"

\* C4: when Like, Unlike or comment Publish returns success, then for each
\* target: a failed publish was followed by the direct write of that target
\* (transaction / minute bucket), and a successful publish by no direct write.
C4_FallbackTotality ==
    Returned({"like", "unlike", "comment"}) =>
        /\ ev.statePub = "fail" => ev.stateDirect = "done"
        /\ ev.statePub = "ok" => ev.stateDirect = "skip"
        /\ ev.popPub = "fail" => ev.popDirect = "applied"
        /\ ev.popPub = "ok" => ev.popDirect = "skip"

\* C5: a Follow or Unfollow whose event was published performs no direct
\* write of the follow edge.
C5_PublishedMeansNoDirectWrite ==
    (ev.kind = "api" /\ ev.op \in {"follow", "unfollow"} /\ ev.statePub = "ok")
        => ev.stateDirect # "done"

\* C6: when Like, Unlike or comment Publish returns success, the effect on
\* each target is in the queue or written: no target has a failed publish
\* and no applied direct write.
C6_NeverBothLost ==
    Returned({"like", "unlike", "comment"}) =>
        /\ ev.statePub = "ok" \/ ev.stateDirect = "done"
        /\ ev.popPub = "ok" \/ ev.popDirect = "applied"

\* C7: every video has likes_count >= 0 and popularity >= 0 in every
\* reachable state.
C7_NoNegativeCounters ==
    \A v \in Videos : likesCount[v] >= 0 /\ popularity[v] >= 0

\* C8: with no Like / Unlike call in progress and no like event queued,
\* likes_count of every video equals the number of its Like rows.
C8_LikesIntegrity ==
    (call = Idle /\ likeQ = <<>>) =>
        \A v \in Videos :
            likesCount[v] = Cardinality({l \in likes : l[1] = v})

\* C9: after N >= 1 deliveries of the same like, unlike, follow, unfollow or
\* comment-delete message, each processed without failure, the tables are what
\* they were after the first delivery.
C9_IdempotentWorker == deliveries >= 1 => DB = first.db

\* a like message whose first delivery created the row and bumped the
\* counters has been delivered again
C9_Witness ==
    /\ deliveries >= 2 /\ first.changed
    /\ ev.kind = "worker" /\ ev.op = "like" /\ ev.stateDirect = "dup"

\* C10: a like that meets an existing Like row changes neither likes_count nor
\* popularity: not when the worker delivers the like event, and not when the
\* fallback transaction hits the unique constraint (that call fails).
C10_DuplicateLikeNoBump ==
    (ev.op = "like" /\ ev.stateDirect = "dup") =>
        /\ ~ev.bumped
        /\ ev.kind = "api" => ev.res = "err"

\* the worker has just delivered a like event for a pair whose row and counter
\* bump a fallback transaction had written
C10_Witness ==
    /\ ev.kind = "worker" /\ ev.op = "like" /\ ev.stateDirect = "dup"
    /\ \A v \in Videos : likesCount[v] = 1 /\ popularity[v] = 1
    /\ Cardinality(likes) = 1

\* ----------------------------------------------------------------------
\* Claims on Part III
\* ----------------------------------------------------------------------
RowOf(id) == CHOOSE v \in ptable : v.id = id

\* C11: paging through ListLikesCount with the returned cursor until a page
\* is empty or has_more is false returns every row exactly once, in the
\* order (likes_count DESC, id DESC).
C11_LikesCursorComplete ==
    /\ pstate # "rejected"
    /\ pstate = "done" =>
         /\ Len(pseen) = Cardinality(ptable)
         /\ \A v \in ptable : \E i \in 1..Len(pseen) : pseen[i] = v.id
         /\ \A i \in 1..Len(pseen) : \A j \in 1..Len(pseen) :
              i < j => LikesOrder(RowOf(pseen[i]), RowOf(pseen[j]))

\* a finished paging whose first page ended between two rows of likes_count 0
C11_Witness ==
    /\ pstate = "done"
    /\ Len(pseen) > PageLimit(plimit)
    /\ RowOf(pseen[PageLimit(plimit)]).likes = 0
    /\ RowOf(pseen[PageLimit(plimit) + 1]).likes = 0

\* C12: with no cache, paging through ListByPopularity with the returned
\* triple returns every row exactly once, in the order
\* (popularity DESC, create_time DESC, id DESC).
C12_PopularityCursorComplete ==
    /\ pstate # "rejected"
    /\ pstate = "done" =>
         /\ Len(pseen) = Cardinality(ptable)
         /\ \A v \in ptable : \E i \in 1..Len(pseen) : pseen[i] = v.id
         /\ \A i \in 1..Len(pseen) : \A j \in 1..Len(pseen) :
              i < j => PopularityOrder(RowOf(pseen[i]), RowOf(pseen[j]))

\* a finished paging whose first page ended between two rows that tie on
\* popularity and on create_time
C12_Witness ==
    /\ pstate = "done"
    /\ Len(pseen) > PageLimit(plimit)
    /\ LET a == RowOf(pseen[PageLimit(plimit)])
           b == RowOf(pseen[PageLimit(plimit) + 1])
       IN  a.pop = b.pop /\ a.ctime = b.ctime /\ preq.before # 0

\* ----------------------------------------------------------------------
\* Claims on Part IV
\* ----------------------------------------------------------------------
\* C13: while the snapshot key of an asOf exists, every ListByPopularity
\* call for that asOf and the same (offset, limit) returns the same member
\* list, whatever is written to the minute buckets and whatever other calls
\* run at the same time.
C13_SnapshotStable == ~differs

C15_CacheDecides ==
    \A r \in Gates :
        gpc[r] = "done" =>
            /\ gpath[r] \in {"differ", "geterrDiffer"}
                 => (gres[r] = "reject" /\ gdb[r] = "none" /\ gset[r] = "none")
            /\ gpath[r] = "miss"
                 => (gres[r] = "admit" <=> gdb[r] \in {"match", "errMatch"})

\* C15 (amended): when the cache GET returns another token the request is
\* rejected without a database read and without a change of the cache; when
\* the GET misses or fails it is admitted iff the row is loaded and its token
\* is the presented one.
C15_GateDecision ==
    /\ [](\A r \in Gates :
            /\ gpath[r] = "differ"
                 => (gpc[r] = "done" /\ gres[r] = "reject" /\ gdb[r] = "none"
                     /\ gset[r] = "none")
            /\ (gpc[r] = "done" /\ gpath[r] \in {"miss", "geterr", "geterrDiffer"})
                 => (gres[r] = "admit" <=> gdb[r] = "match"))
    /\ [][\A r \in Gates :
            (gpath[r] = "none" /\ gpath'[r] = "differ")
                => cacheToken' = cacheToken]_vars

\* a request was rejected on another cached token although the row holds
\* the token it presented
C15_Witness ==
    \E r \in Gates :
        /\ gpc[r] = "done" /\ gpath[r] = "differ" /\ gres[r] = "reject"
        /\ gdb[r] = "none" /\ dbToken = gtok[r]

\* C16: a request made after Login / Rename returned token T', with no
\* session operation running during it, is admitted if it presents T' and
\* rejected if it presents an older token.
C16_SingleActiveSession ==
    \A r \in Gates :
        (gpc[r] = "done" /\ ghdr[r] = "bearer" /\ gclean[r]
           /\ gactive[r] # NoToken) =>
            /\ gtok[r] = gactive[r] => gres[r] = "admit"
            /\ gtok[r] # gactive[r] => gres[r] = "reject"

\* C17: a request made after Logout / ChangePassword returned nil, with no
\* session operation running during it, is rejected if it presents the
\* token that was active before the logout.
C17_LogoutRevokes ==
    \A r \in Gates :
        (gpc[r] = "done" /\ ghdr[r] = "bearer" /\ gclean[r]
           /\ gactive[r] = NoToken /\ gtok[r] = lastOut) => gres[r] = "reject"

\* C24: the soft gate passes a request without an Authorization header on
\* as anonymous; a malformed header, a token that fails verification and a
\* token that is not the active token of the account (no session operation
\* running during the request) are answered 401; no request that carried a
\* header goes on as anonymous.
C24_SoftGate ==
    \A r \in Gates :
        gpc[r] = "done" =>
            /\ ghdr[r] = "absent" => gres[r] = "anonymous"
            /\ ghdr[r] \in {"malformed", "invalid"} => gres[r] = "reject"
            /\ (ghdr[r] = "bearer" /\ gclean[r] /\ gtok[r] # gactive[r])
                 => gres[r] = "reject"
            /\ gres[r] = "anonymous" => ghdr[r] = "absent"

\* ----------------------------------------------------------------------
\* Claims on the delivery of arbitrary bodies
\* ----------------------------------------------------------------------
\* bodies process returns nil for before any database call
LikeNoCall(b) ==
    \/ b = Malformed
    \/ b.user = 0 \/ b.video = 0
    \/ b.action \notin {"like", "unlike"}
SocialNoCall(b) ==
    \/ b = Malformed
    \/ b.follower = 0 \/ b.vlogger = 0
    \/ b.action \notin {"follow", "unfollow"}
CommentNoCall(b) ==
    \/ b = Malformed
    \/ b.action \notin {"publish", "delete"}
    \/ b.action = "publish" /\ (b.video = 0 \/ b.author = 0)
    \/ b.action = "delete" /\ b.id = 0

\* bodies with nothing to apply: the above, a missing referent, a duplicate
LikeNoOp(b, d) ==
    \/ LikeNoCall(b)
    \/ ~IsExist(d, b.video)
    \/ b.action = "like" /\ IsLiked(d, b.video, b.user)
SocialNoOp(b, d) ==
    \/ SocialNoCall(b)
    \/ b.action = "follow" /\ IsFollowed(d, b.follower, b.vlogger)
CommentNoOp(b, d) ==
    \/ CommentNoCall(b)
    \/ b.action = "publish" /\ ~IsExist(d, b.video)
    \/ b.action = "delete" /\ GetByID(d, b.id) = {}

\* the one response of a delivery and what it does to the queue
Responded(q, qNext) ==
    /\ vars' # vars => (ev'.kind = "worker" /\ ev'.res \in {"acked", "lost", "nack"})
    /\ ev'.res = "nack" => qNext = Append(Tail(q), Head(q))
    /\ ev'.res = "acked" => qNext = Tail(q)
    /\ ev'.res = "lost" => qNext = q

C19_AckAfterBucketWrite ==
    (ev.kind = "worker" /\ ev.op = "popularity" /\ ev.res \in Acks)
        => ev.stateDirect = "applied"

\* C20: once a like and an unlike of one pair without a row have both been
\* acked, the pair has no row and the tables are the ones they were issued on.
C20_BalancedTerminal ==
    likeQ = <<>> => DB = first.db

\* ----------------------------------------------------------------------
\* Claims on Part VI
\* ----------------------------------------------------------------------
\* C21: ListLatest uses the cache only for the anonymous viewer,
\* ListByFollowing only under the key of its viewer, ListLikesCount never;
\* every cached and every returned response was built for the viewer it is
\* stored for / returned to, and the anonymous viewer gets is_liked = false.
C21_CacheScoping ==
    /\ [](/\ rcache[<<"feed:listLatest">>].builtFor \in {0, NoResp.builtFor}
          /\ \A a \in Accounts :
               rcache[<<"feed:listByFollowing", a>>].builtFor
                   \in {a, NoResp.builtFor}
          /\ rlast.src \in {"cache", "db"} => rlast.builtFor = rlast.viewer
          /\ rlast.src = "cache" =>
               \/ rlast.op = "listLatest" /\ rlast.viewer = 0
               \/ rlast.op = "listByFollowing" /\ rlast.viewer # 0
          /\ rlast.viewer = 0 => ~rlast.isLiked)
    /\ [][(/\ rlast' # rlast
            /\ \/ rlast'.op = "listLikesCount"
               \/ rlast'.op = "listLatest" /\ rlast'.viewer # 0)
            => rcache' = rcache]_vars

\* a logged-in viewer who likes the video was served from its own key while
\* the anonymous key is filled as well
C21_Witness ==
    /\ rlast.op = "listByFollowing" /\ rlast.src = "cache" /\ rlast.isLiked
    /\ rcache[<<"feed:listLatest">>] # NoResp
    /\ \E a \in Accounts : a # rlast.viewer
                           /\ rcache[<<"feed:listByFollowing", a>>] # NoResp

\* C28: every ListByFollowing response, also one served from the cache,
\* carries is_liked equal to whether the viewer's Like row exists now.
C28_FreshLikeState ==
    (rlast.op = "listByFollowing" /\ rlast.src \in {"cache", "db"})
        => (rlast.isLiked <=> rlast.viewer \in vlikes)

\* ----------------------------------------------------------------------
\* Claims on the follow edges
\* ----------------------------------------------------------------------
\* C22: after any Follow / Unfollow calls and deliveries of their events no
\* row of the social table has follower_id = vlogger_id, and no pair has
\* more than one row.
C22_NoSelfFollow ==
    \A p \in Pairs : /\ p[1] = p[2] => follows[p] = 0
                     /\ follows[p] <= 1

\* the worker has just delivered the follow event of an edge that the Follow
\* call had already written
C22_Witness ==
    /\ ev.kind = "worker" /\ ev.op = "follow" /\ ev.res = "acked"
    /\ ev.stateDirect = "same"
    /\ \E p \in Pairs : follows[p] = 1

\* ----------------------------------------------------------------------
\* Claims on the deletion of comments
\* ----------------------------------------------------------------------
\* C23: a comment row disappears only in a Delete call of its author or in
\* the delivery of a delete event, and a delete event is published only by a
\* Delete call of the author of the comment it names; a Delete call by
\* another account returns an error, publishes nothing and leaves the row.
C23_AuthorOnlyDelete ==
    [][/\ \A c \in comments : c \notin comments' =>
            \/ /\ ev'.kind = "api" /\ ev'.op = "cdelete"
               /\ deleteCall' = [acct |-> c.author, id |-> c.id]
            \/ /\ ev'.kind = "worker" /\ ev'.op = "delete"
               /\ commentQ # <<>> /\ Head(commentQ).id = c.id
       /\ Len(commentQ') > Len(commentQ) =>
            /\ ev'.kind = "api" /\ ev'.op = "cdelete"
            /\ commentQ'[Len(commentQ')] =
                 CommentEvent("delete", 0, 0, deleteCall'.id)
            /\ \E c \in comments : deleteCall' = [acct |-> c.author, id |-> c.id]
       /\ (/\ ev'.kind = "api" /\ ev'.op = "cdelete"
           /\ \E c \in comments : /\ c.id = deleteCall'.id
                                  /\ c.author # deleteCall'.acct)
            => /\ ev'.res = "err"
               /\ commentQ' = commentQ
               /\ comments' = comments]_vars

\* a Delete call by another account was rejected and the comment is in place
C23_Witness ==
    /\ ev.kind = "api" /\ ev.op = "cdelete" /\ ev.res = "err"
    /\ \E c \in comments : c.id = deleteCall.id /\ c.author # deleteCall.acct

\* ----------------------------------------------------------------------
\* Claims on the contexts of the cache commands of Part I
\* ----------------------------------------------------------------------
\* the step is one of request c
StepOf(c) == <<fpc[c], polls[c]>> # <<fpc'[c], polls'[c]>>

\* C25: a request that acquired the lease returns only through the deferred
\* Unlock, whatever it returns (re-check hit, query error, fresh response);
\* the compare-and-delete is sent whether or not the request's cache context
\* is done, and when it gets through, the lease is deleted iff it still
\* holds the request's token.
C25_ReleaseOnEveryPath ==
    [][\A c \in Callers :
          /\ (ftoken[c] # NoLock /\ fpc'[c] = "done") =>
                /\ fpc[c] = "unlock"
                /\ fcmd'.op = "unlock" /\ fcmd'.out # "expired"
                /\ fcmd'.out = "ok" => lock' = unlockScript(lock, ftoken[c])
          /\ (fpc[c] \in {"recheck", "hquery", "hset"} /\ StepOf(c)) =>
                fpc'[c] \in {"hquery", "hset", "unlock", "crashed"}]_vars

\* a lease holder whose query outlived its cache context has returned the
\* fresh response and its Unlock deleted the lease
C25_Witness ==
    /\ fcmd.op = "unlock" /\ fcmd.late /\ fcmd.out = "ok"
    /\ lock = NoLock
    /\ \E c \in Callers : fpc[c] = "done" /\ fres[c] = "fresh"

\* C26: the lease holder whose source query succeeded writes the response
\* to the cache key before it releases the lease, unless the cache is not
\* reachable, however long the query took.
C26_HolderWritesCache ==
    [][\A c \in Callers :
          (fpc[c] = "hset" /\ fpc'[c] = "unlock" /\ fcmd'.out # "neterr")
              => (fcmd'.op = "set" /\ fcmd'.out = "ok" /\ cache')]_vars

\* C27: a contender reads the cache at most five times; every read is made
\* under a live deadline, and a read that finds the response written (the
\* cache being reachable) returns it without a source query.
C27_ContenderReads ==
    [][\A c \in Callers :
          (fpc[c] = "poll" /\ StepOf(c)) =>
              /\ polls'[c] <= MaxPolls
              /\ PollAgain(polls[c]) =>
                    /\ fcmd'.op = "get" /\ fcmd'.out # "expired"
                    /\ (cache /\ fcmd'.out # "neterr") =>
                          (fpc'[c] = "done" /\ fres'[c] = "cached")]_vars

\* ----------------------------------------------------------------------
\* Claims on Part VII
\* ----------------------------------------------------------------------
\* the minutes asOf - 59 .. asOf that have a bucket
Window(asOf) == {t \in Minutes : asOf - 59 <= t /\ t <= asOf}

\* the sum of the scores of m in the buckets of the minutes S
RECURSIVE SumOver(_, _)
SumOver(S, m) ==
    IF S = {} THEN 0
    ELSE LET t == CHOOSE u \in S : TRUE
         IN  hbucket[t].score[m] + SumOver(S \ {t}, m)

\* the number of members of z that ZREVRANGE lists before m
Rank(z, m) ==
    Cardinality({x \in z.has : \/ z.score[x] > z.score[m]
                                \/ (z.score[x] = z.score[m] /\ x > m)})

\* C29: a snapshot that is materialized holds exactly the videos with an
\* entry in a bucket of the minutes asOf - 59 .. asOf, each with the sum of
\* its scores in them; a page served from the snapshot holds the members of
\* the ranks offset .. offset + limit - 1 whose rows were loaded, without
\* repetition and in descending score.
C29_SnapshotPages ==
    /\ [][\A t \in Minutes :
            hsnap'[t] # hsnap[t] =>
              /\ hsnap'[t].has =
                   {m \in Members : \E u \in Window(t) : m \in hbucket[u].has}
              /\ \A m \in hsnap'[t].has :
                   hsnap'[t].score[m] = SumOver(Window(t), m)]_vars
    /\ [](\A k \in 1..Len(hpages) :
            hpages[k].src = "cache" =>
              LET p == hpages[k]
                  z == hsnap[Truncate(p.asOf)]
                  last == p.offset + PageLimit(hlimit) - 1
              IN  /\ {p.ids[i] : i \in 1..Len(p.ids)} =
                       {m \in z.has : /\ p.offset <= Rank(z, m)
                                      /\ Rank(z, m) <= last
                                      /\ \E v \in htable : v.id = m}
                  /\ \A i, j \in 1..Len(p.ids) :
                       i < j => /\ p.ids[i] # p.ids[j]
                                /\ z.score[p.ids[i]] >= z.score[p.ids[j]])

\* a page served from the snapshot returned a video whose snapshot score 2
\* is the sum of its scores in the buckets of two minutes
C29_Witness ==
    \E k \in 1..Len(hpages), m \in Members :
        /\ hpages[k].src = "cache"
        /\ \E i \in 1..Len(hpages[k].ids) : hpages[k].ids[i] = m
        /\ hsnap[Truncate(hpages[k].asOf)].score[m] = 2
        /\ Cardinality({t \in Minutes : m \in hbucket[t].has}) = 2

\* the ids of the pages before page k
RECURSIVE Earlier(_)
Earlier(k) ==
    IF k <= 1 THEN {}
    ELSE Earlier(k - 1)
           \cup {hpages[k - 1].ids[i] : i \in 1..Len(hpages[k - 1].ids)}

\* C30: a page of the database fallback that follows pages served from the
\* snapshot, and a page served from the snapshot that follows a page of the
\* database fallback, hold no video of an earlier page.
C30_Handoff ==
    \A k \in 2..Len(hpages) :
        hpages[k].src # hpages[k - 1].src =>
            \A i \in 1..Len(hpages[k].ids) : hpages[k].ids[i] \notin Earlier(k)

\* the in-scope rows of the table by create_time DESC, when no two share one
RECURSIVE OrderByCreateTime(_)
OrderByCreateTime(S) ==
    IF S = {} THEN <<>>
    ELSE LET h == CHOOSE x \in S : \A y \in S : x.ctime >= y.ctime
         IN  <<h>> \o OrderByCreateTime(S \ {h})

DistinctCreateTimes(S) == \A x, y \in S : x # y => x.ctime # y.ctime

\* no id is returned twice by the pages so far
C31_NoRepeat == \A i, j \in 1..Len(pseen) : i # j => pseen[i] # pseen[j]

\* C31: paging Latest or Following from latest_time = 0 with the next_time of
\* each response returns no video twice, and, when no two videos share a
\* create_time, has returned every video in scope, in create_time DESC order,
\* when has_more is false.
C31_LatestPages ==
    /\ C31_NoRepeat
    /\ (pstate = "done" /\ DistinctCreateTimes(ptable)) =>
           pseen = IDs(OrderByCreateTime(InScope(preq.kind, ptable)))

\* ----------------------------------------------------------------------
\* Claims on the deliveries of the workers
\* ----------------------------------------------------------------------
\* C32: a delivery of a like, unlike or comment-publish event that is
\* requeued has committed none of its effects: no step leaves a row or a
\* counter changed and the message back in the queue.
C32_AtomicDelivery ==
    [][(ev'.kind = "worker" /\ ev'.op \in {"like", "unlike", "publish"}
          /\ ev'.res = "nack") => UNCHANGED varsDB]_vars

\* C33: after one or more deliveries of one comment publish message the
\* tables are what they were after the first delivery (one comment row, one
\* popularity increment), and after one or more deliveries of one popularity
\* message its delta is in the minute bucket of its video once.
C33_IdempotentConsumers ==
    deliveries >= 1 =>
        /\ ev.op = "publish" => DB = first.db
        /\ ev.op = "popularity" =>
              \E v \in Videos, change \in {-1, 1} :
                  hot = [w \in Videos |-> IF w = v THEN change ELSE 0]

\* C35: no two started workers consume on the same channel.
C35_OwnChannels ==
    \A w1, w2 \in Workers :
        (w1 # w2 /\ consumers[w1] # 0 /\ consumers[w2] # 0)
            => consumers[w1] # consumers[w2]

\* ----------------------------------------------------------------------
\* Claims on Part IX
\* ----------------------------------------------------------------------
\* C37: when no change of the video is in progress and no GetDetail is
\* running, the detail key is absent or holds the row as it is now.
C37_DetailFresh ==
    (dpend = {} /\ \A c \in Callers : dpc[c] = "idle")
        => (vcache = <<>> \/ vcache = vrow)

\* C38: an edge whose last successful SocialService call was Unfollow does
\* not exist.
C38_UnfollowStays == \A p \in unfollowed : follows[p] = 0

\* ----------------------------------------------------------------------
\* Claims on the drain of the queues
\* ----------------------------------------------------------------------
\* The failures are transient: at most MaxDeliver - 1 deliveries of the
\* message fail or lose their Ack.
Budget(bad) == bad => deliveries < MaxDeliver - 1
Spent(bad) == IF bad THEN deliveries + 1 ELSE deliveries

\* LikeWorker / SocialWorker / CommentWorker.handleDelivery
DrainDeliver ==
    /\ \E ack \in Acks :
         \/ /\ likeQ # <<>>
            /\ \E fail \in LikeFails :
                 LET r == LikeProcess(DB, Head(likeQ), fail)
                 IN  /\ Reached(r, fail, ack)
                     /\ Budget(r.err \/ ack = "lost")
                     /\ SetDB(r.db)
                     /\ likeQ' = Settle(likeQ, r.err, ack)
                     /\ deliveries' = Spent(r.err \/ ack = "lost")
                     /\ ev' = WorkerEv(Head(likeQ).action, Res(r, ack),
                                       LikeRowOp(DB, Head(likeQ), r),
                                       CountersDiffer(DB, r.db))
            /\ UNCHANGED <<socialQ, commentQ>>
         \/ /\ socialQ # <<>>
            /\ \E fail \in SocialFails :
                 LET r == SocialProcess(DB, Head(socialQ), fail)
                 IN  /\ Reached(r, fail, ack)
                     /\ Budget(r.err \/ ack = "lost")
                     /\ SetDB(r.db)
                     /\ socialQ' = Settle(socialQ, r.err, ack)
                     /\ deliveries' = Spent(r.err \/ ack = "lost")
                     /\ ev' = WorkerEv(Head(socialQ).action, Res(r, ack),
                                       IF r.db.follows = follows THEN "same"
                                                                ELSE "changed",
                                       FALSE)
            /\ UNCHANGED <<likeQ, commentQ>>
         \/ /\ commentQ # <<>>
            /\ \E fail \in CommentFails :
                 LET r == CommentProcess(DB, Head(commentQ), fail)
                 IN  /\ Reached(r, fail, ack)
                     /\ Budget(r.err \/ ack = "lost")
                     /\ SetDB(r.db)
                     /\ commentQ' = Settle(commentQ, r.err, ack)
                     /\ deliveries' = Spent(r.err \/ ack = "lost")
                     /\ ev' = WorkerEv(Head(commentQ).action, Res(r, ack),
                                       IF r.db.comments = comments THEN "same"
                                                                  ELSE "changed",
                                       CountersDiffer(DB, r.db))
            /\ UNCHANGED <<likeQ, socialQ>>
    /\ UNCHANGED <<hot, popularityQ, call, first, deleteCall, unfollowed>>
    /\ UNCHANGED <<varsFeed, varsRest>>

\* one message waits in one queue, over tables whose counters are 0; the
\* worker keeps consuming
InitDrain ==
    /\ InitDeliver
    /\ \A v \in Videos : likesCount[v] = 0 /\ popularity[v] = 0

InitDrainAll == InitFeed /\ InitDrain /\ InitIdle
SpecDrain == InitDrainAll /\ [][DrainDeliver]_vars
FairSpecDrain == SpecDrain /\ WF_vars(DrainDeliver)

\* C34: a message waiting in the like, social or comment queue is eventually
\* acked and gone; a body with nothing to apply (malformed, zero ids, unknown
\* action, missing video, duplicate row, comment already absent) is processed
\* without an error, so its delivery is answered with an Ack.
C34_QueueDrain ==
    /\ (likeQ # <<>>) ~> (likeQ = <<>>)
    /\ (socialQ # <<>>) ~> (socialQ = <<>>)
    /\ (commentQ # <<>>) ~> (commentQ = <<>>)
    /\ [](/\ (likeQ # <<>> /\ LikeNoOp(Head(likeQ), DB))
               => ~LikeProcess(DB, Head(likeQ), "none").err
          /\ (socialQ # <<>> /\ SocialNoOp(Head(socialQ), DB))
               => ~SocialProcess(DB, Head(socialQ), "none").err
          /\ (commentQ # <<>> /\ CommentNoOp(Head(commentQ), DB))
               => ~CommentProcess(DB, Head(commentQ), "none").err)

\* a like message was nacked with its row inserted and once more before a
\* database call; the next delivery found the duplicate and was acked
C34_Witness ==
    /\ deliveries = MaxDeliver - 1
    /\ ev.kind = "worker" /\ ev.op = "like" /\ ev.res = "acked"
    /\ ev.stateDirect = "dup"
    /\ likeQ = <<>>

\* C36: when the pages of one asOf, asked for from offset 0 with the
\* next_offset of each response, have ended with has_more false, they hold
\* every member of the snapshot whose row exists, and none of them twice.
C36_SnapshotPaging ==
    (/\ hstate = "done" /\ hpages # <<>>
     /\ \A k \in 1..Len(hpages) : /\ hpages[k].src = "cache"
                                  /\ hpages[k].asOf = hpages[1].asOf) =>
        LET z == hsnap[Truncate(hpages[1].asOf)]
        IN  /\ Earlier(Len(hpages) + 1) =
                  {m \in z.has : \E v \in htable : v.id = m}
            /\ \A k \in 2..Len(hpages) :
                  \A i \in 1..Len(hpages[k].ids) :
                      hpages[k].ids[i] \notin Earlier(k)

\* C39: when no session operation and no auth check is in progress, the
\* entry account:{id} is absent or holds the token of the row.
C39_TokenCacheCoherent ==
    (apc = "idle" /\ \A r \in Gates : gpc[r] \in {"idle", "done"})
        => (cacheToken = NoToken \/ cacheToken = dbToken)

\* C40: when no Like / Unlike call is in progress and the like and the
\* popularity queue are empty, the minute bucket of every video holds +1 per
\* Like row created and -1 per Like row deleted: its score is the number of
\* the video's Like rows.
C40_HotMatchesLikes ==
    (call = Idle /\ likeQ = <<>> /\ popularityQ = <<>>) =>
        \A v \in Videos : hot[v] = Cardinality({l \in likes : l[1] = v})

====
